---- MODULE Spec2Model ----
(***************************************************************************)
(* Warehouse routing: the fixed start/end route optimizer                  *)
(* (src/physical/routing.py) and the clustering graph builder              *)
(* (src/legacy/warehouse_graph_enhanced.py).                               *)
(*                                                                         *)
(* Conventions.                                                            *)
(*  - A routing graph is a function from its edges (two-element sets of    *)
(*    node ids) to weights; every id of Nodes is a node of the graph.      *)
(*  - float('inf') is the value Inf; Add and Lt are + and < on floats      *)
(*    that may be infinite.                                                *)
(*  - Where Python iterates over a set (greedy's remaining picks, a        *)
(*    component's nodes) or networkx chooses one of several shortest       *)
(*    paths, the model takes every outcome.                                *)
(***************************************************************************)
EXTENDS Integers, Sequences, FiniteSets, TLC

\* ---------------------------------------------------------------- bounds

MaxPicks == 3
MaxLocs == 4

\* the ids of the graph's nodes, an id that is not in the graph, the edge weights
Nodes == {1, 2, 3, 4}
AbsentIds == {0}
Weights == {1, 2}

\* ------------------------------------------------------------ constants

Inf == -1
ExhaustiveCap == 10
max_iterations == 100
vertical_alignment_tolerance == 5
rack_min_samples == 2
aisle_width_min == 10
aisle_width_max == 20
x_tolerance == 5
y_tolerance == 5
rack_section == 20
max_intra_aisle_dist == 20
max_cross_aisle_dist == 15
stitch_count == 2
aisle_end_tolerance == 5

\* ------------------------------------------------------------- variables

VARIABLES
    G, start_node, end_node, pick_locations, method,   \* the call's arguments
    lengths,                                           \* networkx's weighted distances on G
    pc,                                                \* position in the call
    valid_picks, current, remaining, route, pick_order,
    total_distance, distance, improved, iterations,
    best_distance, best_order,
    idx,                                               \* position of a route-building loop
    seed,                                              \* greedy's return value inside 2-opt
    result,                                            \* the call's outcome
    locs,                                              \* the location table
    min_aisle_size, ensure_connectivity, min_clearance, \* the builder's arguments
    step,                                              \* position in the builder
    edges,                                             \* the edge list
    marks,                                             \* the list's length after each step
    components, round,                                 \* the repair loop
    built,                                             \* the graph made from the list
    floors,                                            \* the floors' location tables
    floor_graphs,                                      \* the graph of every floor
    floor_lengths,                                     \* networkx's weighted distances on each
    unified_graph,                                     \* the floors' graphs joined
    answer,                                            \* the outcome of a multi-floor call
    self_nodes,                                        \* the visibility builder's nodes
    self_obstacles,                                    \* its non-traversable footprints
    ph_G,                                              \* the graph it builds
    ph_components,                                     \* the components its repair works on
    ph_bridges,                                        \* the edges its repair added
    ph_pc                                              \* its position

rvars == <<G, lengths, start_node, end_node, pick_locations, method, pc, valid_picks,
           current, remaining, route, pick_order, total_distance, distance,
           improved, iterations, best_distance, best_order, idx, seed, result>>

gvars == <<locs, min_aisle_size, ensure_connectivity, min_clearance, step, edges, marks,
           components, round, built>>

mvars == <<floors, floor_graphs, floor_lengths, unified_graph, answer>>

hvars == <<self_nodes, self_obstacles, ph_G, ph_components, ph_bridges, ph_pc>>

vars == <<rvars, gvars, mvars, hvars>>

\* ------------------------------------------------------- float helpers

Add(a, b) == IF a = Inf \/ b = Inf THEN Inf ELSE a + b

Lt(a, b) == a # Inf /\ (b = Inf \/ a < b)

\* ---------------------------------------------------- sequence helpers

SeqToSet(s) == {s[i] : i \in 1..Len(s)}

Reverse(s) == [i \in 1..Len(s) |-> s[Len(s) + 1 - i]]

Tail1(s) == SubSeq(s, 2, Len(s))

SetMin(S) == CHOOSE x \in S : \A y \in S : x <= y

RECURSIVE SetToSortedSeq(_)
SetToSortedSeq(S) ==
    IF S = {} THEN <<>> ELSE <<SetMin(S)>> \o SetToSortedSeq(S \ {SetMin(S)})

\* ------------------------------------------------- networkx on the graph

AllPairs == {{u, v} : u, v \in Nodes} \ {{u} : u \in Nodes}

Graphs == UNION {[E -> Weights] : E \in SUBSET AllPairs}

SimplePaths ==
    {p \in UNION {[1..n -> Nodes] : n \in 1..Cardinality(Nodes)} :
        \A i, j \in 1..Len(p) : i # j => p[i] # p[j]}

has_edge(g, u, v) == {u, v} \in DOMAIN g

\* the weight of the step u -> v: 0 for staying, Inf where there is no edge
StepWeight(g, u, v) ==
    IF u = v THEN 0 ELSE IF has_edge(g, u, v) THEN g[{u, v}] ELSE Inf

MinInf(S) ==
    LET finite == S \ {Inf} IN IF finite = {} THEN Inf ELSE SetMin(finite)

RECURSIVE PathWeight(_, _)
PathWeight(g, p) ==
    IF Len(p) < 2 THEN 0
    ELSE Add(StepWeight(g, p[1], p[2]), PathWeight(g, Tail1(p)))

\* the simple paths of the complete graph from u to v
PathsFromTo ==
    [u \in Nodes |-> [v \in Nodes |->
        {p \in SimplePaths : p[1] = u /\ p[Len(p)] = v}]]

\* the weighted distance between every two nodes of g (Inf: no path)
Distances(g) ==
    [u \in Nodes |-> [v \in Nodes |->
        MinInf({PathWeight(g, p) : p \in PathsFromTo[u][v]})]]

\* nx.has_path(G, u, v), d being the distances of G
has_path(d, u, v) == d[u][v] # Inf

\* nx.shortest_path_length(G, u, v, weight='weight'), d being the distances of G
shortest_path_length(d, u, v) == d[u][v]

\* the paths nx.shortest_path(G, u, v, weight='weight') may return: every path
\* from u to v whose weight is the distance d[u][v]
RECURSIVE shortest_path(_, _, _, _)
shortest_path(g, d, u, v) ==
    IF d[u][v] = Inf THEN {}
    ELSE IF u = v THEN {<<u>>}
    ELSE UNION {{<<u>> \o p : p \in shortest_path(g, d, w, v)} :
                w \in {x \in Nodes : /\ has_edge(g, u, x)
                                     /\ d[x][v] # Inf
                                     /\ g[{u, x}] + d[x][v] = d[u][v]}}

\* route.extend(path_segment) in place of route.extend(path_segment[1:])
extend_whole_segment(r, path_segment) == r \o path_segment

\* route.extend(path_segment[1:])
extend(r, path_segment) == r \o Tail1(path_segment)

\* ------------------------------------------------------ return values

Pending == [status |-> "pending", route |-> <<>>, total_distance |-> 0, pick_order |-> <<>>]

\* return None, None, None
NoneResult == [status |-> "none", route |-> <<>>, total_distance |-> 0, pick_order |-> <<>>]

\* nx.NetworkXNoPath leaves the call
Raised == [status |-> "raise", route |-> <<>>, total_distance |-> 0, pick_order |-> <<>>]

Returned(r, d, o) == [status |-> "ok", route |-> r, total_distance |-> d, pick_order |-> o]

\* ------------------------------------------------------------- inputs

Methods == {"greedy", "2-opt", "christofides", "exhaustive"}

PickLists == UNION {[1..n -> Nodes \cup AbsentIds] : n \in 0..MaxPicks}

\* Node ids are numbered in the order the call first names them (start, end,
\* then the picks): the solver's behaviour does not depend on how nodes are
\* called, so every input is one of these up to renaming.
FirstUseOrder(w) ==
    \A k \in 1..Len(w) :
        w[k] \in Nodes =>
            \/ w[k] = SetMin(Nodes)
            \/ \E m \in 1..(k - 1) : w[m] = w[k] \/ w[m] = w[k] - 1

Distinct(w) == \A i, j \in 1..Len(w) : i # j => w[i] # w[j]

\* the calls: start, end and a list of distinct picks that are graph nodes
Calls ==
    {c \in Nodes \X Nodes \X PickLists :
        /\ SeqToSet(c[3]) \subseteq Nodes
        /\ Distinct(c[3])
        /\ FirstUseOrder(<<c[1], c[2]>> \o c[3])}

\* the edge list's marks before any step, the graph before any node
no_marks == [vertical |-> 0, horizontal |-> 0, cross |-> 0, isolated |-> 0]

no_graph == [nodes |-> {}, weight |-> <<>>]

\* the visibility builder while there is no physical warehouse
IdlePhysical ==
    /\ self_nodes = <<>>
    /\ self_obstacles = {}
    /\ ph_G = no_graph
    /\ ph_components = <<>>
    /\ ph_bridges = {}
    /\ ph_pc = "idle"

\* the multi-floor warehouse while there is none
IdleFloors ==
    /\ floors = <<>>
    /\ floor_graphs = <<>>
    /\ floor_lengths = <<>>
    /\ unified_graph = no_graph
    /\ answer = [call |-> "none"]

\* the builder while a route is solved
IdleBuilder ==
    /\ locs = <<>>
    /\ min_aisle_size = 3
    /\ ensure_connectivity = TRUE
    /\ min_clearance = 1
    /\ step = "idle"
    /\ edges = <<>>
    /\ marks = no_marks
    /\ components = <<>>
    /\ round = 0
    /\ built = no_graph

InitRoute ==
    /\ IdleBuilder
    /\ IdleFloors
    /\ IdlePhysical
    /\ G \in Graphs
    /\ lengths = Distances(G)
    /\ \E c \in Calls :
        /\ start_node = c[1]
        /\ end_node = c[2]
        /\ pick_locations = c[3]
    /\ method \in Methods
    /\ pc = "call"
    /\ valid_picks = <<>>
    /\ current = start_node
    /\ remaining = {}
    /\ route = <<>>
    /\ pick_order = <<>>
    /\ total_distance = 0
    /\ distance = 0
    /\ improved = FALSE
    /\ iterations = 0
    /\ best_distance = Inf
    /\ best_order = <<>>
    /\ idx = 0
    /\ seed = Pending
    /\ result = Pending

\* ------------------------------- calls with repeated and unknown picks

\* the connected graphs whose edges all weigh 1
UnitGraphs ==
    {g \in Graphs :
        /\ \A e \in DOMAIN g : g[e] = 1
        /\ \A u, v \in Nodes : has_path(Distances(g), u, v)}

\* pick lists one longer than PickLists, so that three picks remain when one
\* is repeated or unknown
DupPickLists == UNION {[1..n -> Nodes \cup AbsentIds] : n \in 0..(MaxPicks + 1)}

\* the calls whose pick list repeats an id or names an id that is not a node
DupCalls ==
    {c \in Nodes \X Nodes \X DupPickLists :
        /\ ~Distinct(c[3]) \/ ~(SeqToSet(c[3]) \subseteq Nodes)
        /\ FirstUseOrder(<<c[1], c[2]>> \o c[3])}

InitDup ==
    /\ IdleBuilder
    /\ IdleFloors
    /\ IdlePhysical
    /\ G \in UnitGraphs
    /\ lengths = Distances(G)
    /\ \E c \in DupCalls :
        /\ start_node = c[1]
        /\ end_node = c[2]
        /\ pick_locations = c[3]
    /\ method \in Methods
    /\ pc = "call"
    /\ valid_picks = <<>>
    /\ current = start_node
    /\ remaining = {}
    /\ route = <<>>
    /\ pick_order = <<>>
    /\ total_distance = 0
    /\ distance = 0
    /\ improved = FALSE
    /\ iterations = 0
    /\ best_distance = Inf
    /\ best_order = <<>>
    /\ idx = 0
    /\ seed = Pending
    /\ result = Pending

\* ------------------------------------------- solve_tsp_with_endpoints

\* a dispatch without the cap on the number of picks
runs_exhaustive_uncapped(m, vp) == m = "exhaustive"

\* "if method == 'exhaustive' and len(valid_picks) <= 10"
runs_exhaustive(m, vp) == m = "exhaustive" /\ Len(vp) <= ExhaustiveCap

solve_tsp_with_endpoints ==
    /\ pc = "call"
    /\ LET vp == SelectSeq(pick_locations, LAMBDA p : p \in Nodes) IN
        /\ valid_picks' = vp
        /\ IF vp = <<>>
           THEN /\ result' = NoneResult
                /\ pc' = "done"
                /\ UNCHANGED <<current, remaining, route, pick_order, total_distance>>
           ELSE IF runs_exhaustive(method, vp)
           THEN /\ pc' = "exhaustive"
                /\ UNCHANGED <<result, current, remaining, route, pick_order,
                               total_distance>>
           ELSE \* '2-opt' enters _solve_tsp_2opt, 'christofides' falls back to it
                \* (_solve_tsp_christofides), and both start with greedy
                /\ pc' = "greedy"
                /\ current' = start_node
                /\ remaining' = SeqToSet(vp)
                /\ route' = <<start_node>>
                /\ pick_order' = <<>>
                /\ total_distance' = 0
                /\ UNCHANGED result
    /\ UNCHANGED <<G, lengths, start_node, end_node, pick_locations, method, distance,
                   improved, iterations, best_distance, best_order, idx, seed>>
    /\ UNCHANGED <<gvars, mvars, hvars>>

\* ---------------------------------------------------- _solve_tsp_greedy

\* the picks greedy's inner for loop can select: those with a path from cur
GreedyReachable(d, cur, rem) == {p \in rem : has_path(d, cur, p)}

\* the picks "if dist < nearest_dist" can leave in nearest, over the orders in
\* which the set remaining may be iterated
NearestPicks(d, cur, rem) ==
    {p \in GreedyReachable(d, cur, rem) :
        \A q \in GreedyReachable(d, cur, rem) :
            ~(shortest_path_length(d, cur, q) < shortest_path_length(d, cur, p))}

\* queries that consume the graph: every edge they looked at is removed
graph_after_queries_consumed(g) == [e \in {} |-> 1]

\* the graph after nx.has_path, nx.shortest_path_length and nx.shortest_path:
\* the queries only read it
graph_after_queries(g) == g

\* one iteration of "while remaining" that finds a nearest pick
GreedyStep ==
    /\ pc = "greedy"
    /\ LET d == lengths IN
        /\ GreedyReachable(d, current, remaining) # {}
        /\ \E nearest \in NearestPicks(d, current, remaining) :
            /\ \E path_segment \in shortest_path(G, d, current, nearest) :
                  route' = extend(route, path_segment)
            /\ total_distance' =
                  total_distance + shortest_path_length(d, current, nearest)
            /\ remaining' = remaining \ {nearest}
            /\ pick_order' = Append(pick_order, nearest)
            /\ current' = nearest
    /\ G' = graph_after_queries(G)
    /\ UNCHANGED <<lengths, start_node, end_node, pick_locations, method, pc, valid_picks,
                   distance, improved, iterations, best_distance, best_order, idx,
                   seed, result>>
    /\ UNCHANGED <<gvars, mvars, hvars>>

\* a return that never adds final_dist to the total
final_leg_forgotten(d, total, cur, e) == total

\* the total after the path to end_node, when there is one
final_leg(d, total, cur, e) ==
    IF has_path(d, cur, e) THEN total + shortest_path_length(d, cur, e) ELSE total

\* the loop ends (remaining is empty, or "nearest is None: break"), the path to
\* the end is added when there is one, and greedy returns
GreedyReturn ==
    /\ pc = "greedy"
    /\ LET d == lengths IN
        /\ GreedyReachable(d, current, remaining) = {}
        /\ \E final_segment \in
                (IF has_path(d, current, end_node)
                 THEN shortest_path(G, d, current, end_node) ELSE {<<current>>}) :
            LET r == extend(route, final_segment)
                t == final_leg(d, total_distance, current, end_node)
            IN  /\ route' = r
                /\ total_distance' = t
                /\ IF method \in {"2-opt", "christofides"}
                   THEN /\ seed' = Returned(r, t, pick_order)
                        /\ distance' = t
                        /\ pc' = "2opt"
                        /\ UNCHANGED result
                   ELSE /\ result' = Returned(r, t, pick_order)
                        /\ pc' = "done"
                        /\ UNCHANGED <<seed, distance>>
    /\ UNCHANGED <<G, lengths, start_node, end_node, pick_locations, method, valid_picks,
                   current, remaining, pick_order, improved, iterations,
                   best_distance, best_order, idx>>
    /\ UNCHANGED <<gvars, mvars, hvars>>

\* ------------------------------------------------------ _solve_tsp_2opt

\* pick_order[:i+1] + pick_order[i+1:j+1][::-1] + pick_order[j+1:]  (i, j from 0)
new_order(order, i, j) ==
    SubSeq(order, 1, i + 1) \o Reverse(SubSeq(order, i + 2, j + 1))
        \o SubSeq(order, j + 2, Len(order))

\* "for pick in new_order": <<new_distance, current>> when the loop ends or breaks
RECURSIVE walk_order(_, _, _, _)
walk_order(d, cur, order, acc) ==
    IF order = <<>> THEN <<acc, cur>>
    ELSE IF has_path(d, cur, order[1])
         THEN walk_order(d, order[1], Tail1(order),
                         Add(acc, shortest_path_length(d, cur, order[1])))
         ELSE <<Inf, cur>>

\* the distance 2-opt computes for a candidate order
new_distance(d, s, order, e) ==
    LET w == walk_order(d, s, order, 0) IN
    IF w[2] # e /\ has_path(d, w[2], e)
    THEN Add(w[1], shortest_path_length(d, w[2], e))
    ELSE w[1]

\* the (i, j) the two for loops visit
ScanPairs(n) == {<<i, j>> \in (0..(n - 2)) \X (0..(n - 1)) : j >= i + 2}

\* "if new_distance > distance" in place of "<"
accepts_longer(nd, dist) == Lt(dist, nd)

\* "if new_distance < distance"
accepts(nd, dist) == Lt(nd, dist)

Improving(d, s, order, e, dist) ==
    {ij \in ScanPairs(Len(order)) :
        accepts(new_distance(d, s, new_order(order, ij[1], ij[2]), e), dist)}

\* the first pair in the loops' order
FirstPair(S) ==
    CHOOSE ij \in S : \A kl \in S : ij[1] < kl[1] \/ (ij[1] = kl[1] /\ ij[2] <= kl[2])

\* "if not pick_order or len(pick_order) < 3: return route, distance, pick_order"
TwoOptReturnSeed ==
    /\ pc = "2opt"
    /\ Len(pick_order) < 3
    /\ result' = seed
    /\ pc' = "done"
    /\ UNCHANGED <<G, lengths, start_node, end_node, pick_locations, method, valid_picks,
                   current, remaining, route, pick_order, total_distance, distance,
                   improved, iterations, best_distance, best_order, idx, seed>>
    /\ UNCHANGED <<gvars, mvars, hvars>>

\* the improvement loop is entered: improved = True, iterations = 0
TwoOptEnter ==
    /\ pc = "2opt"
    /\ Len(pick_order) >= 3
    /\ improved' = TRUE
    /\ iterations' = 0
    /\ pc' = "2opt-loop"
    /\ UNCHANGED <<G, lengths, start_node, end_node, pick_locations, method, valid_picks,
                   current, remaining, route, pick_order, total_distance, distance,
                   best_distance, best_order, idx, seed, result>>
    /\ UNCHANGED <<gvars, mvars, hvars>>

\* one pass of "while improved and iterations < max_iterations"
TwoOptPass ==
    /\ pc = "2opt-loop"
    /\ improved /\ iterations < max_iterations
    /\ iterations' = iterations + 1
    /\ LET d == lengths
           imp == Improving(d, start_node, pick_order, end_node, distance)
       IN  IF imp = {}
           THEN /\ improved' = FALSE
                /\ UNCHANGED <<pick_order, distance>>
           ELSE \E ij \in {FirstPair(imp)} :
                  \E no \in {new_order(pick_order, ij[1], ij[2])} :
                    /\ pick_order' = no
                    /\ distance' = new_distance(d, start_node, no, end_node)
                    /\ improved' = TRUE
    /\ UNCHANGED <<G, lengths, start_node, end_node, pick_locations, method, pc, valid_picks,
                   current, remaining, route, total_distance, best_distance,
                   best_order, idx, seed, result>>
    /\ UNCHANGED <<gvars, mvars, hvars>>

\* the loop is left; "route = [start_node]; total_distance = 0; current = start_node"
TwoOptLoopExit ==
    /\ pc = "2opt-loop"
    /\ ~(improved /\ iterations < max_iterations)
    /\ route' = <<start_node>>
    /\ total_distance' = 0
    /\ current' = start_node
    /\ idx' = 1
    /\ pc' = "2opt-rebuild"
    /\ UNCHANGED <<G, lengths, start_node, end_node, pick_locations, method, valid_picks,
                   remaining, pick_order, distance, improved, iterations,
                   best_distance, best_order, seed, result>>
    /\ UNCHANGED <<gvars, mvars, hvars>>

\* one iteration of "for pick in pick_order" of the rebuild
TwoOptRebuildPick ==
    /\ pc = "2opt-rebuild"
    /\ idx <= Len(pick_order)
    /\ LET d == lengths
           pick == pick_order[idx]
       IN  IF has_path(d, current, pick)
           THEN /\ \E path_segment \in shortest_path(G, d, current, pick) :
                       route' = extend(route, path_segment)
                /\ total_distance' =
                       total_distance + shortest_path_length(d, current, pick)
                /\ current' = pick
                /\ idx' = idx + 1
                /\ UNCHANGED <<pc, result>>
           ELSE /\ result' = Raised
                /\ pc' = "done"
                /\ UNCHANGED <<route, total_distance, current, idx>>
    /\ UNCHANGED <<G, lengths, start_node, end_node, pick_locations, method, valid_picks,
                   remaining, pick_order, distance, improved, iterations,
                   best_distance, best_order, seed>>
    /\ UNCHANGED <<gvars, mvars, hvars>>

\* the final segment to end_node, and the return
TwoOptRebuildEnd ==
    /\ pc = "2opt-rebuild"
    /\ idx > Len(pick_order)
    /\ LET d == lengths IN
       IF has_path(d, current, end_node)
       THEN \E final_segment \in shortest_path(G, d, current, end_node) :
              LET r == extend(route, final_segment)
                  t == total_distance + shortest_path_length(d, current, end_node)
              IN  /\ route' = r
                  /\ total_distance' = t
                  /\ result' = Returned(r, t, pick_order)
       ELSE /\ result' = Raised
            /\ UNCHANGED <<route, total_distance>>
    /\ pc' = "done"
    /\ UNCHANGED <<G, lengths, start_node, end_node, pick_locations, method, valid_picks,
                   current, remaining, pick_order, distance, improved, iterations,
                   best_distance, best_order, idx, seed>>
    /\ UNCHANGED <<gvars, mvars, hvars>>

\* ------------------------------------------------ _solve_tsp_exhaustive

\* itertools.permutations of the positions of a list, in the order it yields them
RECURSIVE permutations(_)
permutations(S) ==
    IF S = {} THEN << <<>> >>
    ELSE LET ordered == SetToSortedSeq(S)
             from[k \in 0..Len(ordered)] ==
                 IF k = 0 THEN <<>>
                 ELSE LET rest == permutations(S \ {ordered[k]})
                      IN  from[k - 1] \o [m \in 1..Len(rest) |-> <<ordered[k]>> \o rest[m]]
         IN  from[Len(ordered)]

\* the final leg to end_node left out of a permutation's distance
perm_distance_without_end(d, s, perm, e) == walk_order(d, s, perm, 0)[1]

\* the distance exhaustive computes for one permutation
perm_distance(d, s, perm, e) ==
    LET w == walk_order(d, s, perm, 0) IN
    IF w[2] # e /\ has_path(d, w[2], e)
    THEN Add(w[1], shortest_path_length(d, w[2], e))
    ELSE w[1]

\* the first permutation with a finite distance kept, whatever the later ones
best_perm_first_found(d, s, picks, e, perms, k, bd, bo) ==
    LET finite == {m \in 1..Len(perms) :
                     perm_distance(d, s, [n \in 1..Len(picks) |-> picks[perms[m][n]]], e)
                        # Inf}
    IN  IF finite = {} THEN <<bd, bo>>
        ELSE LET perm == [n \in 1..Len(picks) |-> picks[perms[SetMin(finite)][n]]]
             IN  <<perm_distance(d, s, perm, e), perm>>

\* "for perm in itertools.permutations(pick_locations)": <<best_distance, best_order>>,
\* best_order = <<>> standing for None
RECURSIVE best_perm(_, _, _, _, _, _, _, _)
best_perm(d, s, picks, e, perms, k, bd, bo) ==
    IF k > Len(perms) THEN <<bd, bo>>
    ELSE LET perm == [m \in 1..Len(picks) |-> picks[perms[k][m]]]
             total_dist == perm_distance(d, s, perm, e)
         IN  IF Lt(total_dist, bd)
             THEN best_perm(d, s, picks, e, perms, k + 1, total_dist, perm)
             ELSE best_perm(d, s, picks, e, perms, k + 1, bd, bo)

ExhaustiveSearch ==
    /\ pc = "exhaustive"
    /\ LET b == best_perm(lengths, start_node, valid_picks, end_node,
                          permutations(1..Len(valid_picks)), 1, Inf, <<>>)
       IN  /\ best_distance' = b[1]
           /\ best_order' = b[2]
           /\ IF b[2] = <<>>
              THEN /\ result' = NoneResult
                   /\ pc' = "done"
                   /\ UNCHANGED <<route, current, idx>>
              ELSE /\ route' = <<start_node>>
                   /\ current' = start_node
                   /\ idx' = 1
                   /\ pc' = "exhaustive-build"
                   /\ UNCHANGED result
    /\ UNCHANGED <<G, lengths, start_node, end_node, pick_locations, method, valid_picks,
                   remaining, pick_order, total_distance, distance, improved,
                   iterations, seed>>
    /\ UNCHANGED <<gvars, mvars, hvars>>

\* one iteration of "for pick in best_order"
ExhaustiveBuildPick ==
    /\ pc = "exhaustive-build"
    /\ idx <= Len(best_order)
    /\ LET d == lengths
           pick == best_order[idx]
       IN  IF has_path(d, current, pick)
           THEN /\ \E path_segment \in shortest_path(G, d, current, pick) :
                       route' = extend(route, path_segment)
                /\ current' = pick
                /\ idx' = idx + 1
                /\ UNCHANGED <<pc, result>>
           ELSE /\ result' = Raised
                /\ pc' = "done"
                /\ UNCHANGED <<route, current, idx>>
    /\ UNCHANGED <<G, lengths, start_node, end_node, pick_locations, method, valid_picks,
                   remaining, pick_order, total_distance, distance, improved,
                   iterations, best_distance, best_order, seed>>
    /\ UNCHANGED <<gvars, mvars, hvars>>

\* the final segment to end_node, and "return route, best_distance, best_order"
ExhaustiveBuildEnd ==
    /\ pc = "exhaustive-build"
    /\ idx > Len(best_order)
    /\ LET d == lengths IN
       IF has_path(d, current, end_node)
       THEN \E final_segment \in shortest_path(G, d, current, end_node) :
              LET r == extend(route, final_segment)
              IN  /\ route' = r
                  /\ result' = Returned(r, best_distance, best_order)
       ELSE /\ result' = Raised
            /\ UNCHANGED route
    /\ pc' = "done"
    /\ UNCHANGED <<G, lengths, start_node, end_node, pick_locations, method, valid_picks,
                   current, remaining, pick_order, total_distance, distance,
                   improved, iterations, best_distance, best_order, idx, seed>>
    /\ UNCHANGED <<gvars, mvars, hvars>>

\* ================================================================
\* The graph builder (src/legacy/warehouse_graph_enhanced.py)
\* ================================================================
\* A location table is a sequence of rows; a row's id is its index.  Lengths
\* are compared through their squares, and an edge carries the square of its
\* Euclidean length.  Rectangle bounds are kept doubled, so that half widths
\* stay whole numbers.

\* ---------------------------------------------------- the location table

\* the grid positions a location can take, in the table's row order
CellXY == << <<0, 0>>, <<0, 10>>, <<0, 20>>, <<10, 0>>, <<10, 10>>, <<10, 20>> >>

\* what a location can be: a bin, a waypoint, a small or a large obstacle
Kinds ==
    { [type |-> "picking",  traversable |-> TRUE,  width |-> 2, depth |-> 2],
      [type |-> "aisle",    traversable |-> TRUE,  width |-> 2, depth |-> 2],
      [type |-> "obstacle", traversable |-> FALSE, width |-> 2, depth |-> 2],
      [type |-> "obstacle", traversable |-> FALSE, width |-> 9, depth |-> 9] }

\* a row before the aisle and rack columns are filled in
Row(cell, kind) ==
    [x |-> CellXY[cell][1], y |-> CellXY[cell][2], type |-> kind.type,
     traversable |-> kind.traversable, width |-> kind.width, depth |-> kind.depth,
     rack_id |-> -1, rack_side |-> "none", v_aisle |-> -1, h_aisle |-> -1]

\* the tables of at most MaxLocs locations on distinct cells
Layouts ==
    UNION { { [i \in 1..Cardinality(S) |-> Row(SetToSortedSeq(S)[i], kind[SetToSortedSeq(S)[i]])]
              : kind \in [S -> Kinds] }
            : S \in {T \in SUBSET (1..Len(CellXY)) : Cardinality(T) <= MaxLocs} }

\* min_aisle_size values the caller passes to detect_aisles_with_dimensions
AisleSizes == {2, 3}

traversable_indices(L) == {i \in DOMAIN L : L[i].traversable}

\* ------------------------------------------------------------- DBSCAN

Abs(n) == IF n < 0 THEN -n ELSE n

\* the nodes reachable from S along the directed pairs of R
RECURSIVE Reach(_, _)
Reach(S, R) ==
    LET T == S \cup {r[2] : r \in {q \in R : q[1] \in S}}
    IN  IF T = S THEN S ELSE Reach(T, R)

\* sklearn's DBSCAN(eps, min_samples).fit on the one-dimensional values c[i],
\* i \in I: a core point has min_samples points (itself included) within eps;
\* clusters are numbered in the order of their first core point; a border
\* point joins the first cluster that reaches it; the rest is noise (-1)
DBSCAN(c, I, eps, min_samples) ==
    LET nb(i) == {j \in I : Abs(c[j] - c[i]) <= eps}
        cores == {i \in I : Cardinality(nb(i)) >= min_samples}
        R == {q \in cores \X cores : q[2] \in nb(q[1])}
        first(i) == SetMin(Reach({i}, R))
        firsts == {first(i) : i \in cores}
        core_label(i) == Cardinality({s \in firsts : s < first(i)})
        label(i) ==
            IF i \in cores THEN core_label(i)
            ELSE LET adj == {core_label(j) : j \in cores \cap nb(i)}
                 IN  IF adj = {} THEN -1 ELSE SetMin(adj)
    IN  [i \in I |-> label(i)]

\* ------------------------------------------------ infer_racks_from_bins

RECURSIVE SumX(_, _)
SumX(L, S) ==
    IF S = {} THEN 0 ELSE LET i == CHOOSE j \in S : TRUE IN L[i].x + SumX(L, S \ {i})

\* rack_bins['x'].mean(), kept as the pair <<sum, count>>
center_x(L, rack_bins) == <<SumX(L, rack_bins), Cardinality(rack_bins)>>

\* 10 < abs(c1 - c2) < 20 on two means
aisle_apart_open(c1, c2) ==
    LET diff == Abs(c1[1] * c2[2] - c2[1] * c1[2])
    IN  aisle_width_min * c1[2] * c2[2] < diff /\ diff < aisle_width_max * c1[2] * c2[2]

\* 10 <= abs(c1 - c2) <= 20 on two means
aisle_apart(c1, c2) ==
    LET diff == Abs(c1[1] * c2[2] - c2[1] * c1[2])
    IN  aisle_width_min * c1[2] * c2[2] <= diff /\ diff <= aisle_width_max * c1[2] * c2[2]

\* c1 < c2 on two means
center_lt(c1, c2) == c1[1] * c2[2] < c2[1] * c1[2]

no_pairs == [paired_racks |-> {}, rack_side |-> <<>>, rack_pairs |-> <<>>]

\* the pairing loop over the sorted rack ids, from position i on
RECURSIVE pair_racks(_, _, _, _)
pair_racks(rack_centers, rack_ids, i, acc) ==
    IF i > Len(rack_ids) THEN acc
    ELSE LET rack1 == rack_ids[i]
             cands == {k \in (i + 1)..Len(rack_ids) :
                          /\ rack_ids[k] \notin acc.paired_racks
                          /\ aisle_apart(rack_centers[rack1], rack_centers[rack_ids[k]])}
         IN  IF rack1 \in acc.paired_racks \/ cands = {}
             THEN pair_racks(rack_centers, rack_ids, i + 1, acc)
             ELSE LET rack2 == rack_ids[SetMin(cands)]
                      left_rack == IF center_lt(rack_centers[rack1], rack_centers[rack2])
                                   THEN rack1 ELSE rack2
                      right_rack == IF left_rack = rack1 THEN rack2 ELSE rack1
                  IN  pair_racks(rack_centers, rack_ids, i + 1,
                          [paired_racks |-> acc.paired_racks \cup {rack1, rack2},
                           rack_side |-> (left_rack :> "left") @@ (right_rack :> "right")
                                             @@ acc.rack_side,
                           rack_pairs |-> (left_rack :> right_rack) @@ (right_rack :> left_rack)
                                             @@ acc.rack_pairs])

bins(L) == {i \in DOMAIN L : L[i].type = "picking"}

\* the racks of the bins: DBSCAN on the bins' x
bin_racks(L) ==
    DBSCAN([i \in bins(L) |-> L[i].x], bins(L), vertical_alignment_tolerance, rack_min_samples)

\* the outcome of the pairing loop: paired racks, their sides, their partners
pairing(L) ==
    LET rack == bin_racks(L)
        racks == {rack[i] : i \in bins(L)} \ {-1}
        rack_centers == [r \in racks |-> center_x(L, {i \in bins(L) : rack[i] = r})]
    IN  pair_racks(rack_centers, SetToSortedSeq(racks), 1, no_pairs)

infer_racks_from_bins(L) ==
    IF bins(L) = {} THEN [i \in DOMAIN L |-> [L[i] EXCEPT !.rack_id = -1, !.rack_side = "none"]]
    ELSE LET rack == bin_racks(L)
             p == pairing(L)
         IN  [i \in DOMAIN L |->
                 IF i \notin bins(L) THEN [L[i] EXCEPT !.rack_id = -1, !.rack_side = "none"]
                 ELSE [L[i] EXCEPT !.rack_id = rack[i],
                                   !.rack_side = IF rack[i] \in DOMAIN p.rack_side
                                                 THEN p.rack_side[rack[i]] ELSE "none"]]

\* ------------------------------------- detect_aisles_with_dimensions

detect_aisles_with_dimensions(L, min_size) ==
    LET R == infer_racks_from_bins(L)
        T == traversable_indices(R)
        v == DBSCAN([i \in T |-> R[i].x], T, x_tolerance, min_size)
        h == DBSCAN([i \in T |-> R[i].y], T, y_tolerance, min_size)
    IN  [i \in DOMAIN R |->
            IF i \in T THEN [R[i] EXCEPT !.v_aisle = v[i], !.h_aisle = h[i]]
            ELSE [R[i] EXCEPT !.v_aisle = -1, !.h_aisle = -1]]

\* ------------------------------------------------------------ geometry

\* a row's position, doubled
Pt(L, i) == <<2 * L[i].x, 2 * L[i].y>>

\* calculate_distance, squared
calculate_distance(L, i, j) ==
    (L[i].x - L[j].x) * (L[i].x - L[j].x) + (L[i].y - L[j].y) * (L[i].y - L[j].y)

\* dist <= limit, on a squared dist
within(dist, limit) == dist <= limit * limit

\* 0 <= n / denom <= 1
unit_ratio(n, denom) ==
    IF denom > 0 THEN 0 <= n /\ n <= denom ELSE denom <= n /\ n <= 0

\* abs(denom) < 1e-10, on coordinates counted in half units: a denom that is
\* not 0 is at least a quarter
parallel_eps == 1

\* the same on coordinates counted in halves of 1e-6: denom * 0.25e-12 < 1e-10
parallel_eps_micro == 400

line_segments_intersect_on(eps, p1, p2, p3, p4) ==
    LET denom == (p1[1] - p2[1]) * (p3[2] - p4[2]) - (p1[2] - p2[2]) * (p3[1] - p4[1])
        t == (p1[1] - p3[1]) * (p3[2] - p4[2]) - (p1[2] - p3[2]) * (p3[1] - p4[1])
        u == -((p1[1] - p2[1]) * (p1[2] - p3[2]) - (p1[2] - p2[2]) * (p1[1] - p3[1]))
    IN  IF Abs(denom) < eps THEN FALSE
        ELSE unit_ratio(t, denom) /\ unit_ratio(u, denom)

line_segments_intersect(p1, p2, p3, p4) ==
    line_segments_intersect_on(parallel_eps, p1, p2, p3, p4)

\* the doubled bounds of a rectangle with the given centre row and full sizes
Rect(obs, obstacle_width, obstacle_depth) ==
    [min_x |-> 2 * obs.x - obstacle_width, max_x |-> 2 * obs.x + obstacle_width,
     min_y |-> 2 * obs.y - obstacle_depth, max_y |-> 2 * obs.y + obstacle_depth]

inside(p, r) == r.min_x <= p[1] /\ p[1] <= r.max_x /\ r.min_y <= p[2] /\ p[2] <= r.max_y

rect_edges(r) ==
    { << <<r.min_x, r.min_y>>, <<r.max_x, r.min_y>> >>,
      << <<r.max_x, r.min_y>>, <<r.max_x, r.max_y>> >>,
      << <<r.max_x, r.max_y>>, <<r.min_x, r.max_y>> >>,
      << <<r.min_x, r.max_y>>, <<r.min_x, r.min_y>> >> }

Min2(a, b) == IF a < b THEN a ELSE b
Max2(a, b) == IF a > b THEN a ELSE b

\* the test without the look at the endpoints
check_line_crossing_only_on(eps, p1, p2, r) ==
    IF \/ Max2(p1[1], p2[1]) < r.min_x \/ Min2(p1[1], p2[1]) > r.max_x
       \/ Max2(p1[2], p2[2]) < r.min_y \/ Min2(p1[2], p2[2]) > r.max_y
    THEN FALSE
    ELSE \E e \in rect_edges(r) : line_segments_intersect_on(eps, p1, p2, e[1], e[2])

check_line_intersects_obstacle_on(eps, p1, p2, r) ==
    IF inside(p1, r) \/ inside(p2, r) THEN TRUE
    ELSE IF \/ Max2(p1[1], p2[1]) < r.min_x \/ Min2(p1[1], p2[1]) > r.max_x
            \/ Max2(p1[2], p2[2]) < r.min_y \/ Min2(p1[2], p2[2]) > r.max_y
         THEN FALSE
         ELSE \E e \in rect_edges(r) : line_segments_intersect_on(eps, p1, p2, e[1], e[2])

check_line_intersects_obstacle(p1, p2, r) ==
    check_line_intersects_obstacle_on(parallel_eps, p1, p2, r)

obstacles(L) == {i \in DOMAIN L : ~L[i].traversable}

\* is_path_blocked that forgets the clearance buffer
is_path_blocked_bare(L, i, j, clearance) ==
    \E o \in obstacles(L) :
        check_line_intersects_obstacle(Pt(L, i), Pt(L, j), Rect(L[o], L[o].width, L[o].depth))

is_path_blocked(L, i, j, clearance) ==
    \E o \in obstacles(L) :
        check_line_intersects_obstacle(Pt(L, i), Pt(L, j),
            Rect(L[o], L[o].width + 2 * clearance, L[o].depth + 2 * clearance))

should_prevent_connection(L, idx1, idx2) ==
    /\ L[idx1].rack_id >= 0 /\ L[idx2].rack_id >= 0
    /\ L[idx1].rack_side # "none" /\ L[idx2].rack_side # "none"
    /\ L[idx1].rack_side # L[idx2].rack_side
    /\ Abs(L[idx1].y - L[idx2].y) < rack_section

\* ------------------------------------------- build_enhanced_graph: edges

\* sorted(S, key=k): ascending keys, equal keys in ascending index order
RECURSIVE sorted_by(_, _)
sorted_by(S, k) ==
    IF S = {} THEN <<>>
    ELSE LET m == CHOOSE i \in S : \A j \in S : k[i] < k[j] \/ (k[i] = k[j] /\ i <= j)
         IN  <<m>> \o sorted_by(S \ {m}, k)

Edge(L, i, j) == <<i, j, calculate_distance(L, i, j)>>

\* the three tests every aisle edge passes
may_link(L, idx1, idx2, limit) ==
    /\ ~should_prevent_connection(L, idx1, idx2)
    /\ within(calculate_distance(L, idx1, idx2), limit)
    /\ ~is_path_blocked(L, idx1, idx2, min_clearance)

\* the edges between neighbours of one aisle's sorted nodes, from position i on
RECURSIVE chain_edges(_, _, _)
chain_edges(L, sorted_nodes, i) ==
    IF i >= Len(sorted_nodes) THEN <<>>
    ELSE (IF may_link(L, sorted_nodes[i], sorted_nodes[i + 1], max_intra_aisle_dist)
          THEN <<Edge(L, sorted_nodes[i], sorted_nodes[i + 1])>> ELSE <<>>)
         \o chain_edges(L, sorted_nodes, i + 1)

\* the aisles of a labelling, in the order their first node appears
aisle_order(lab) ==
    LET ids == {lab[i] : i \in DOMAIN lab} \ {-1}
        first == [a \in ids |-> SetMin({i \in DOMAIN lab : lab[i] = a})]
    IN  sorted_by(ids, first)

\* the edges of all aisles of a labelling, each aisle sorted by key
RECURSIVE aisle_edges(_, _, _, _)
aisle_edges(L, lab, key, order) ==
    IF order = <<>> THEN <<>>
    ELSE chain_edges(L, sorted_by({i \in DOMAIN lab : lab[i] = order[1]}, key), 1)
         \o aisle_edges(L, lab, key, Tail(order))

vertical_edges(L) ==
    LET T == traversable_indices(L)
        lab == [i \in T |-> L[i].v_aisle]
    IN  aisle_edges(L, lab, [i \in T |-> L[i].y], aisle_order(lab))

horizontal_edges(L) ==
    LET T == traversable_indices(L)
        lab == [i \in T |-> L[i].h_aisle]
    IN  aisle_edges(L, lab, [i \in T |-> L[i].x], aisle_order(lab))

intersection_nodes(L) ==
    {i \in traversable_indices(L) : L[i].v_aisle >= 0 /\ L[i].h_aisle >= 0}

\* the loop over all traversable nodes instead of the intersection nodes
cross_pairs_of_all_nodes(L) ==
    {q \in traversable_indices(L) \X traversable_indices(L) :
        /\ q[1] < q[2]
        /\ ~(L[q[1]].v_aisle = L[q[2]].v_aisle /\ L[q[1]].v_aisle >= 0)
        /\ ~(L[q[1]].h_aisle = L[q[2]].h_aisle /\ L[q[1]].h_aisle >= 0)
        /\ may_link(L, q[1], q[2], max_cross_aisle_dist)}

cross_pairs(L) ==
    {q \in intersection_nodes(L) \X intersection_nodes(L) :
        /\ q[1] < q[2]
        /\ L[q[1]].v_aisle # L[q[2]].v_aisle
        /\ L[q[1]].h_aisle # L[q[2]].h_aisle
        /\ may_link(L, q[1], q[2], max_cross_aisle_dist)}

\* a set of index pairs as a list, first index first
RECURSIVE pair_list(_)
pair_list(S) ==
    IF S = {} THEN <<>>
    ELSE LET m == CHOOSE q \in S : \A r \in S : q[1] < r[1] \/ (q[1] = r[1] /\ q[2] <= r[2])
         IN  <<m>> \o pair_list(S \ {m})

RECURSIVE edges_of(_, _)
edges_of(L, pairs) ==
    IF pairs = <<>> THEN <<>>
    ELSE <<Edge(L, pairs[1][1], pairs[1][2])>> \o edges_of(L, Tail(pairs))

cross_edges(L) == edges_of(L, pair_list(cross_pairs(L)))

isolated(L) == {i \in traversable_indices(L) : L[i].v_aisle = -1 /\ L[i].h_aisle = -1}

\* distances[:2] after the sort: the nearest unblocked traversable nodes
nearest(L, iso_idx) ==
    LET cand == {other \in traversable_indices(L) \ {iso_idx} :
                    ~is_path_blocked(L, iso_idx, other, min_clearance)}
        s == sorted_by(cand, [other \in cand |-> calculate_distance(L, iso_idx, other)])
    IN  SubSeq(s, 1, Min2(stitch_count, Len(s)))

RECURSIVE stitch_edges(_, _)
stitch_edges(L, isos) ==
    IF isos = <<>> THEN <<>>
    ELSE LET n == nearest(L, isos[1])
         IN  [k \in 1..Len(n) |-> Edge(L, isos[1], n[k])] \o stitch_edges(L, Tail(isos))

isolated_edges(L) == stitch_edges(L, SetToSortedSeq(isolated(L)))

\* ------------------------------------- build_enhanced_graph: connectivity

\* both directions of every edge of a list
links(E) == {<<E[k][1], E[k][2]>> : k \in DOMAIN E} \cup {<<E[k][2], E[k][1]>> : k \in DOMAIN E}

\* nx.connected_components: the components in the order of their first node
components_of(N, R) ==
    LET all == N \cup {q[1] : q \in R}
        comp(n) == Reach({n}, R)
        firsts == {n \in all : n = SetMin(comp(n))}
        order == SetToSortedSeq(firsts)
    IN  [k \in 1..Len(order) |-> comp(order[k])]

\* the components of temp_G: the traversable nodes and the edges so far
connected_components(L, E) == components_of(traversable_indices(L), links(E))

\* range(len(components) - 2): a loop that stops one component early
repair_rounds_short(k) == k - 2

\* range(len(components) - 1)
repair_rounds(k) == k - 1

\* range(i, len(components)): a rest that still holds component i
comp2_remaining_from_i(comps, i) == UNION {comps[j] : j \in i..Len(comps)}

\* the nodes of the components after component i
comp2_remaining(comps, i) == UNION {comps[j] : j \in (i + 1)..Len(comps)}

\* the pairs the scan can end on: of least distance, node2 in the first
\* component of the rest that holds a least-distance partner of node1
best_pairs(L, comps, i) ==
    LET comp1 == comps[i]
        rest == comp2_remaining(comps, i)
        least(q) == \A r \in comp1 \X rest :
                        calculate_distance(L, q[1], q[2]) <= calculate_distance(L, r[1], r[2])
        place(n) == CHOOSE j \in i..Len(comps) : n \in comps[j]
    IN  {q \in comp1 \X rest :
            /\ least(q)
            /\ \A n \in rest : least(<<q[1], n>>) => place(q[2]) <= place(n)}

\* ------------------------------------------- create_graph_from_edges

\* networkx add_edge: creates missing endpoints, overwrites the weight
add_edge(g, a, b, d) ==
    [nodes |-> g.nodes \cup {a, b}, weight |-> ({a, b} :> d) @@ g.weight]

\* an edge loop without the test that both nodes are in the graph
keeps_edge_unchecked(g, a, b) == ~has_edge(g.weight, a, b)

keeps_edge(g, a, b) == a \in g.nodes /\ b \in g.nodes /\ ~has_edge(g.weight, a, b)

RECURSIVE add_edges(_, _, _)
add_edges(g, E, k) ==
    IF k > Len(E) THEN g
    ELSE add_edges(IF keeps_edge(g, E[k][1], E[k][2])
                   THEN add_edge(g, E[k][1], E[k][2], E[k][3]) ELSE g, E, k + 1)

create_graph_from_edges(L, E) ==
    add_edges([nodes |-> traversable_indices(L), weight |-> <<>>], E, 1)

graph_links(g) == {q \in g.nodes \X g.nodes : {q[1], q[2]} \in DOMAIN g.weight}

\* nx.number_connected_components
number_connected_components(g) == Len(components_of(g.nodes, graph_links(g)))

\* ------------------------------------------------ the builder's steps


\* the solver while a graph is built
IdleSolver ==
    /\ G = <<>>
    /\ lengths = <<>>
    /\ start_node = 0
    /\ end_node = 0
    /\ pick_locations = <<>>
    /\ method = "greedy"
    /\ pc = "idle"
    /\ valid_picks = <<>>
    /\ current = 0
    /\ remaining = {}
    /\ route = <<>>
    /\ pick_order = <<>>
    /\ total_distance = 0
    /\ distance = 0
    /\ improved = FALSE
    /\ iterations = 0
    /\ best_distance = Inf
    /\ best_order = <<>>
    /\ idx = 0
    /\ seed = Pending
    /\ result = Pending

InitGraph ==
    /\ IdleSolver
    /\ IdleFloors
    /\ IdlePhysical
    /\ locs \in Layouts
    /\ min_aisle_size \in AisleSizes
    /\ ensure_connectivity \in BOOLEAN
    /\ min_clearance = 1
    /\ step = "detect"
    /\ edges = <<>>
    /\ marks = no_marks
    /\ components = <<>>
    /\ round = 0
    /\ built = no_graph

DetectAisles ==
    /\ step = "detect"
    /\ locs' = detect_aisles_with_dimensions(locs, min_aisle_size)
    /\ step' = "vertical"
    /\ UNCHANGED <<min_aisle_size, ensure_connectivity, min_clearance, edges, marks, components, round, built>>
    /\ UNCHANGED <<rvars, mvars, hvars>>

VerticalAisles ==
    /\ step = "vertical"
    /\ edges' = edges \o vertical_edges(locs)
    /\ marks' = [marks EXCEPT !.vertical = Len(edges')]
    /\ step' = "horizontal"
    /\ UNCHANGED <<locs, min_aisle_size, ensure_connectivity, min_clearance, components, round, built>>
    /\ UNCHANGED <<rvars, mvars, hvars>>

HorizontalAisles ==
    /\ step = "horizontal"
    /\ edges' = edges \o horizontal_edges(locs)
    /\ marks' = [marks EXCEPT !.horizontal = Len(edges')]
    /\ step' = "cross"
    /\ UNCHANGED <<locs, min_aisle_size, ensure_connectivity, min_clearance, components, round, built>>
    /\ UNCHANGED <<rvars, mvars, hvars>>

CrossAisles ==
    /\ step = "cross"
    /\ edges' = edges \o cross_edges(locs)
    /\ marks' = [marks EXCEPT !.cross = Len(edges')]
    /\ step' = "isolated"
    /\ UNCHANGED <<locs, min_aisle_size, ensure_connectivity, min_clearance, components, round, built>>
    /\ UNCHANGED <<rvars, mvars, hvars>>

IsolatedNodes ==
    /\ step = "isolated"
    /\ edges' = edges \o isolated_edges(locs)
    /\ marks' = [marks EXCEPT !.isolated = Len(edges')]
    /\ step' = "connectivity"
    /\ UNCHANGED <<locs, min_aisle_size, ensure_connectivity, min_clearance, components, round, built>>
    /\ UNCHANGED <<rvars, mvars, hvars>>

\* ensure_connectivity is off, or there is at most one component: return edges
ReturnEdges ==
    /\ step = "connectivity"
    /\ ~ensure_connectivity \/ Len(connected_components(locs, edges)) <= 1
    /\ components' = IF ensure_connectivity THEN connected_components(locs, edges) ELSE <<>>
    /\ step' = "create"
    /\ UNCHANGED <<locs, min_aisle_size, ensure_connectivity, min_clearance, edges, marks, round, built>>
    /\ UNCHANGED <<rvars, mvars, hvars>>

EnsureConnectivity ==
    /\ step = "connectivity"
    /\ ensure_connectivity
    /\ Len(connected_components(locs, edges)) > 1
    /\ components' = connected_components(locs, edges)
    /\ round' = 1
    /\ step' = "repair"
    /\ UNCHANGED <<locs, min_aisle_size, ensure_connectivity, min_clearance, edges, marks, built>>
    /\ UNCHANGED <<rvars, mvars, hvars>>

\* one round of the repair loop: the bridge from component round to the rest
RepairRound ==
    /\ step = "repair"
    /\ round <= repair_rounds(Len(components))
    /\ \E best_pair \in best_pairs(locs, components, round) :
           edges' = Append(edges, Edge(locs, best_pair[1], best_pair[2]))
    /\ round' = round + 1
    /\ UNCHANGED <<locs, min_aisle_size, ensure_connectivity, min_clearance, step, marks, components, built>>
    /\ UNCHANGED <<rvars, mvars, hvars>>

RepairReturn ==
    /\ step = "repair"
    /\ round > repair_rounds(Len(components))
    /\ step' = "create"
    /\ UNCHANGED <<locs, min_aisle_size, ensure_connectivity, min_clearance, edges, marks, components, round, built>>
    /\ UNCHANGED <<rvars, mvars, hvars>>

CreateGraph ==
    /\ step = "create"
    /\ built' = create_graph_from_edges(locs, edges)
    /\ step' = "built"
    /\ UNCHANGED <<locs, min_aisle_size, ensure_connectivity, min_clearance, edges, marks, components, round>>
    /\ UNCHANGED <<rvars, mvars, hvars>>

NextGraph ==
    \/ DetectAisles
    \/ VerticalAisles
    \/ HorizontalAisles
    \/ CrossAisles
    \/ IsolatedNodes
    \/ ReturnEdges
    \/ EnsureConnectivity
    \/ RepairRound
    \/ RepairReturn
    \/ CreateGraph

\* ------------------------- create_graph_from_edges on any edge list

\* the longest edge list passed in, and the ids it can name: the rows' and
\* one id that is in no row
EdgeListLengths == 0..2
EdgeLists(n) == UNION {[1..m -> (1..(n + 1)) \X (1..(n + 1)) \X {1}] : m \in EdgeListLengths}

\* tables that differ in what is traversable
PlainLayouts ==
    {L \in Layouts : \A k \in DOMAIN L :
        /\ L[k].x = CellXY[k][1] /\ L[k].y = CellXY[k][2]
        /\ L[k].type \in {"aisle", "obstacle"} /\ L[k].width = 2}

\* ------------------------------------ the builder on tables of five and six

\* the tables that fill five or six of the cells with bins, waypoints and
\* large obstacles: aisles that cross, next to nodes of one aisle only
WideLayouts ==
    UNION { { [i \in 1..Cardinality(S) |-> Row(SetToSortedSeq(S)[i], kind[SetToSortedSeq(S)[i]])]
              : kind \in [S -> {k \in Kinds : k.traversable \/ k.width > 2}] }
            : S \in {T \in SUBSET (1..Len(CellXY)) : Cardinality(T) >= Len(CellXY) - 1} }

InitWide ==
    /\ IdleSolver
    /\ IdleFloors
    /\ IdlePhysical
    /\ locs \in WideLayouts
    /\ min_aisle_size \in AisleSizes
    /\ ensure_connectivity \in BOOLEAN
    /\ min_clearance = 1
    /\ step = "detect"
    /\ edges = <<>>
    /\ marks = no_marks
    /\ components = <<>>
    /\ round = 0
    /\ built = no_graph

\* ------------------------------- the builder on tables with shared positions

\* the cell lists of at most MaxLocs rows in row order, a cell taken any
\* number of times
CellLists ==
    {c \in UNION {[1..n -> 1..Len(CellXY)] : n \in 0..MaxLocs} :
        \A k \in 1..(Len(c) - 1) : c[k] <= c[k + 1]}

\* tables of traversable rows, where rows can lie on the same position
StackedLayouts ==
    UNION { { [i \in 1..Len(c) |-> Row(c[i], kind[i])]
              : kind \in [1..Len(c) -> {k \in Kinds : k.traversable}] }
            : c \in CellLists }

InitStacked ==
    /\ IdleSolver
    /\ IdleFloors
    /\ IdlePhysical
    /\ locs \in StackedLayouts
    /\ min_aisle_size \in AisleSizes
    /\ ensure_connectivity \in BOOLEAN
    /\ min_clearance = 1
    /\ step = "detect"
    /\ edges = <<>>
    /\ marks = no_marks
    /\ components = <<>>
    /\ round = 0
    /\ built = no_graph

InitCreate ==
    /\ IdleSolver
    /\ IdleFloors
    /\ IdlePhysical
    /\ locs \in PlainLayouts
    /\ edges \in EdgeLists(Len(locs))
    /\ min_aisle_size = 3
    /\ ensure_connectivity = TRUE
    /\ min_clearance = 1
    /\ step = "create"
    /\ marks = no_marks
    /\ components = <<>>
    /\ round = 0
    /\ built = no_graph

NextCreate == CreateGraph

\* ------------------------------- build_per_floor_graphs on one floor

\* the values of min_clearance a caller passes
FloorClearances == {0, 1, 2}

\* Python's truth value of a number, and the number a bool counts as
truthy(c) == c # 0
as_number(v) == IF v THEN 1 ELSE 0

\* one floor's table, before build_per_floor_graphs(min_clearance=c, verbose=v)
InitFloorBuild ==
    /\ IdleSolver
    /\ IdlePhysical
    /\ floors = <<>>
    /\ floor_graphs = <<>>
    /\ floor_lengths = <<>>
    /\ unified_graph = no_graph
    /\ \E c \in FloorClearances, v \in BOOLEAN :
          answer = [call |-> "build_per_floor_graphs", min_clearance |-> c, verbose |-> v]
    /\ locs \in Layouts
    /\ min_aisle_size = 3
    /\ ensure_connectivity = TRUE
    /\ min_clearance = 1
    /\ step = "floor"
    /\ edges = <<>>
    /\ marks = no_marks
    /\ components = <<>>
    /\ round = 0
    /\ built = no_graph

\* build_enhanced_graph(locs, max_intra_aisle_dist, max_cross_aisle_dist,
\* min_clearance, verbose): the fourth and fifth positional arguments are the
\* builder's ensure_connectivity and min_clearance
BuildFloorGraph ==
    /\ step = "floor"
    /\ min_aisle_size' = 3
    /\ ensure_connectivity' = truthy(answer.min_clearance)
    /\ min_clearance' = as_number(answer.verbose)
    /\ step' = "detect"
    /\ UNCHANGED <<locs, edges, marks, components, round, built>>
    /\ UNCHANGED <<rvars, mvars, hvars>>

NextFloorBuild ==
    \/ BuildFloorGraph
    \/ NextGraph

\* ------------------------- check_line_intersects_obstacle on its own

\* the coordinates of an endpoint and of a rectangle's centre, and the sizes
SegmentCoords == 0..4
CentreCoords == 1..3
RectSizes == {1, 2}

\* the units the coordinates count: whole units, or 1e-6 of one
SegmentGrids ==
    {[unit |-> "1", eps |-> parallel_eps], [unit |-> "1e-6", eps |-> parallel_eps_micro]}

InitSegment ==
    /\ IdleSolver
    /\ IdleBuilder
    /\ IdlePhysical
    /\ floors = <<>>
    /\ floor_graphs = <<>>
    /\ floor_lengths = <<>>
    /\ unified_graph = no_graph
    /\ \E p1 \in SegmentCoords \X SegmentCoords, p2 \in SegmentCoords \X SegmentCoords,
          c \in CentreCoords \X CentreCoords, w \in RectSizes, d \in RectSizes,
          g \in SegmentGrids :
          answer = [call |-> "segment", p1 |-> p1, p2 |-> p2, obstacle_center |-> c,
                    obstacle_width |-> w, obstacle_depth |-> d, grid |-> g]

\* the call, and the call with the endpoints swapped
CheckLineIntersectsObstacle ==
    /\ answer.call = "segment"
    /\ LET r == Rect([x |-> answer.obstacle_center[1], y |-> answer.obstacle_center[2]],
                     answer.obstacle_width, answer.obstacle_depth)
           a == <<2 * answer.p1[1], 2 * answer.p1[2]>>
           b == <<2 * answer.p2[1], 2 * answer.p2[2]>>
       IN  answer' = [call |-> "check_line_intersects_obstacle",
                      p1 |-> a, p2 |-> b, rect |-> r, grid |-> answer.grid,
                      blocked |-> check_line_intersects_obstacle_on(answer.grid.eps, a, b, r),
                      swapped |-> check_line_intersects_obstacle_on(answer.grid.eps, b, a, r)]
    /\ UNCHANGED <<floors, floor_graphs, floor_lengths, unified_graph>>
    /\ UNCHANGED <<rvars, gvars, hvars>>

NextSegment == CheckLineIntersectsObstacle

\* ------------------------------------ infer_racks_from_bins on its own

MaxRackRows == 6

\* the x of a bin: columns 10 and 20 apart, and two that share a rack
RackXs == {0, 3, 10, 20}

\* a bin at x, or a waypoint there
RackRow(x, type) ==
    [x |-> x, y |-> 0, type |-> type, traversable |-> TRUE, width |-> 2, depth |-> 2,
     rack_id |-> -1, rack_side |-> "none", v_aisle |-> -1, h_aisle |-> -1]

\* a table of bins at the positions xs, row other (the first, or none for 0)
\* being a waypoint
RackLayout(xs, other) ==
    [i \in DOMAIN xs |-> RackRow(xs[i], IF i = other THEN "aisle" ELSE "picking")]

InitRacks ==
    /\ IdleSolver
    /\ IdleFloors
    /\ IdlePhysical
    /\ \E n \in 0..MaxRackRows :
          \E xs \in [1..n -> RackXs], other \in {0, 1} : locs = RackLayout(xs, other)
    /\ min_aisle_size = 3
    /\ ensure_connectivity = TRUE
    /\ min_clearance = 1
    /\ step = "racks"
    /\ edges = <<>>
    /\ marks = no_marks
    /\ components = <<>>
    /\ round = 0
    /\ built = no_graph

InferRacks ==
    /\ step = "racks"
    /\ locs' = infer_racks_from_bins(locs)
    /\ step' = "inferred"
    /\ UNCHANGED <<min_aisle_size, ensure_connectivity, min_clearance, edges, marks, components, round, built>>
    /\ UNCHANGED <<rvars, mvars, hvars>>

NextRacks == InferRacks

\* ================================================================
\* The legacy solver and the pipelines that call it
\* (src/legacy/routing.py, src/warehouse_tsp.py, src/legacy/multi_floor.py)
\* ================================================================
\* solve_tsp returns None as the empty route.  Which closed tour christofides
\* returns is networkx's choice: the model takes every closed tour of the
\* nodes.

\* the closed tours of a set of nodes: an order of the nodes, back to its first
ClosedTours(S) ==
    {permutations(S)[k] \o <<permutations(S)[k][1]>> : k \in DOMAIN permutations(S)}

\* networkx's cycle=False: the first heaviest step u -> v of the closed tour is
\* removed, and the path runs from v round to u
open_path(d, best_GG) ==
    LET step_len(k) == d[best_GG[k]][best_GG[k + 1]]
        steps == 1..(Len(best_GG) - 1)
        cut == SetMin({k \in steps : \A m \in steps : step_len(m) <= step_len(k)})
    IN  SubSeq(best_GG, cut + 1, Len(best_GG) - 1) \o SubSeq(best_GG, 1, cut)

\* the node-by-node routes along an order: a shortest path for every step
RECURSIVE expand(_, _, _)
expand(g, d, w) ==
    IF Len(w) <= 1 THEN {w}
    ELSE {SubSeq(q[1], 1, Len(q[1]) - 1) \o q[2] :
            q \in shortest_path(g, d, w[1], w[2]) \X expand(g, d, Tail(w))}

\* approx.traveling_salesman_problem(G, nodes, cycle=False): the routes it can
\* return; none when two of the nodes have no path (a KeyError in the call)
traveling_salesman_problem(g, d, S) ==
    IF \E u, v \in S : ~has_path(d, u, v) THEN {}
    ELSE UNION {expand(g, d, open_path(d, t)) : t \in ClosedTours(S)}

\* solve_tsp(G, pick_locations, cycle=False, method='christofides'), N being
\* the nodes of G: the routes it can return
solve_tsp(N, g, d, picks) ==
    LET vp == SelectSeq(picks, LAMBDA p : p \in N)
        found == traveling_salesman_problem(g, d, SeqToSet(vp))
    IN  IF Len(vp) < 2 THEN {<<>>}
        ELSE IF Len(vp) = 2 THEN {vp}
        ELSE IF found = {} THEN {<<>>} ELSE found

\* a distance summed over shortest paths only, direct edges or not
RECURSIVE calculate_route_distance_by_paths(_, _, _)
calculate_route_distance_by_paths(g, d, r) ==
    IF Len(r) < 2 THEN 0
    ELSE Add(IF r[1] \in DOMAIN d /\ r[2] \in DOMAIN d
             THEN shortest_path_length(d, r[1], r[2]) ELSE Inf,
             calculate_route_distance_by_paths(g, d, Tail(r)))

\* calculate_route_distance(G, route), d being the distances of G; the None it
\* returns on NetworkXNoPath and NodeNotFound is written Inf
RECURSIVE calculate_route_distance(_, _, _)
calculate_route_distance(g, d, r) ==
    IF Len(r) < 2 THEN 0
    ELSE Add(IF has_edge(g, r[1], r[2]) THEN g[{r[1], r[2]}]
             ELSE IF r[1] \in DOMAIN d /\ r[2] \in DOMAIN d
                  THEN shortest_path_length(d, r[1], r[2])
                  ELSE Inf,
             calculate_route_distance(g, d, Tail(r)))

\* [start] + picks, and the end when it is not the start
route_to_optimize(s, picks, e) ==
    IF e # s THEN <<s>> \o picks \o <<e>> ELSE <<s>> \o picks

\* run_single_floor from "Solve TSP" on; solve_unified_tsp builds the same
\* list and makes the same call on the unified graph
run_single_floor ==
    /\ pc = "call"
    /\ \E order \in solve_tsp(Nodes, G, lengths, route_to_optimize(start_node, pick_locations, end_node)) :
          result' =
              IF order = <<>> THEN NoneResult
              ELSE IF \E k \in 1..(Len(order) - 1) :
                         ~has_path(lengths, order[k], order[k + 1])
              THEN Raised
              ELSE Returned(order,
                            calculate_route_distance(G, lengths, order),
                            SelectSeq(order, LAMBDA n : n \in SeqToSet(pick_locations)))
    /\ pc' = "done"
    /\ UNCHANGED <<G, lengths, start_node, end_node, pick_locations, method, valid_picks,
                   current, remaining, route, pick_order, total_distance, distance,
                   improved, iterations, best_distance, best_order, idx, seed>>
    /\ UNCHANGED <<gvars, mvars, hvars>>

\* the pipeline's calls: those of the optimizer, with the method it fixes
InitPipeline ==
    /\ InitRoute
    /\ method = "christofides"

NextPipeline == run_single_floor

\* ================================================================
\* MultiFloorWarehouse (src/legacy/multi_floor.py)
\* ================================================================
\* An id is the sequence of its characters.

MaxFloors == 3

inter_floor_penalty == 1000

DigitChars == <<"0", "1", "2", "3", "4", "5", "6", "7", "8", "9">>

\* f"{n}" of a natural number
RECURSIVE str(_)
str(n) ==
    IF n < 10 THEN <<DigitChars[n + 1]>>
    ELSE str(n \div 10) \o <<DigitChars[(n % 10) + 1]>>

\* int(s) of a string of digits
RECURSIVE int(_)
int(s) ==
    LET value(c) == CHOOSE d \in 0..9 : DigitChars[d + 1] = c
    IN  IF Len(s) = 1 THEN value(s[1])
        ELSE 10 * int(SubSeq(s, 1, Len(s) - 1)) + value(s[Len(s)])

\* f"F{floor_num}_{x}"
prefixed(floor_num, x) == <<"F">> \o str(floor_num) \o <<"_">> \o x

\* node.split('_')[0]
split_first(node) ==
    LET cuts == {k \in DOMAIN node : node[k] = "_"}
    IN  IF cuts = {} THEN node ELSE SubSeq(node, 1, SetMin(cuts) - 1)

startswith_F(node) == node # <<>> /\ node[1] = "F"

\* a tag read from the one character after the F
floor_tag_one_digit(node) ==
    IF startswith_F(node) THEN int(<<node[2]>>) ELSE 1

\* int(node.split('_')[0][1:]) if node.startswith('F') else 1
floor_tag(node) ==
    IF startswith_F(node) THEN int(Tail1(split_first(node))) ELSE 1

\* the loop of _analyze_floor_transitions from position k on; prev_floor is 0
\* for None
RECURSIVE scan_floors(_, _, _, _)
scan_floors(r, k, prev_floor, transitions) ==
    IF k > Len(r) THEN transitions
    ELSE LET floor == floor_tag(r[k])
         IN  scan_floors(r, k + 1, floor,
                 IF prev_floor # 0 /\ floor # prev_floor
                 THEN Append(transitions, <<prev_floor, floor>>)
                 ELSE transitions)

analyze_floor_transitions(r) ==
    LET transitions == scan_floors(r, 1, 0, <<>>)
    IN  [num_transitions |-> Len(transitions),
         transitions     |-> transitions,
         floors_visited  |-> SetToSortedSeq({floor_tag(r[k]) :
                                 k \in {j \in DOMAIN r : startswith_F(r[j])}})]

\* floor numbers and original ids of the routes analysed on their own
TagFloors == {1, 2, 3, 12}

OrigIds == {<<"A">>, <<"1">>, <<"F", "2">>, <<"A", "_", "3">>}

MaxRoute == 3

PrefixedIds == {prefixed(f, x) : f \in TagFloors, x \in OrigIds}

PrefixedRoutes == UNION {[1..n -> PrefixedIds] : n \in 0..MaxRoute}

InitTransitions ==
    /\ IdleFloors
    /\ IdlePhysical
    /\ IdleBuilder
    /\ IdleSolver

\* _analyze_floor_transitions(route)
AnalyzeFloorTransitions ==
    /\ answer.call = "none"
    /\ \E r \in PrefixedRoutes :
          answer' = [call |-> "_analyze_floor_transitions", route |-> r,
                     floor_transitions |-> analyze_floor_transitions(r)]
    /\ UNCHANGED <<floors, floor_graphs, floor_lengths, unified_graph>>
    /\ UNCHANGED <<rvars, gvars, hvars>>

NextTransitions == AnalyzeFloorTransitions

\* ------------------------------------------------ the floors
\* A floor's table holds its original ids, those that are traversable and its
\* one staging location; its graph is kept under the original ids, node n of
\* floor f standing for the id F{f}_{n}.

MaxFloorLocs == 4

FloorIds == {1, 2, 3}

FloorTables ==
    UNION {{[ids |-> I, traversable |-> T, staging |-> SetMin(I)] : T \in SUBSET I} :
             I \in (SUBSET FloorIds) \ {{}}}

\* the graphs build_per_floor_graphs can leave for a floor: its traversable
\* locations, joined in any way
FloorGraphs(t) ==
    UNION {[E -> Weights] :
             E \in SUBSET ({{u, v} : u, v \in t.traversable} \ {{u} : u \in t.traversable})}

FloorPlans ==
    UNION {{[table |-> t, graph |-> g, lengths |-> Distances(g)] : g \in FloorGraphs(t)} :
             t \in FloorTables}

RECURSIVE total_ids(_)
total_ids(plan) ==
    IF plan = <<>> THEN 0
    ELSE Cardinality(plan[1].table.ids) + total_ids(Tail(plan))

\* the id of location n of a floor
node_id(floor_num, n) == prefixed(floor_num, str(n))

InitFloors ==
    /\ IdleBuilder
    /\ IdlePhysical
    /\ IdleSolver
    /\ \E plan \in UNION {[1..n -> FloorPlans] : n \in 1..MaxFloors} :
          /\ total_ids(plan) <= MaxFloorLocs
          /\ floors = [f \in DOMAIN plan |-> plan[f].table]
          /\ floor_graphs = [f \in DOMAIN plan |-> plan[f].graph]
          /\ floor_lengths = [f \in DOMAIN plan |-> plan[f].lengths]
    /\ unified_graph = no_graph
    /\ answer = [call |-> "none"]

\* ------------------------------------------------ solve_per_floor_tsp

\* the pick lists of a call: original ids, some on no floor, none twice
FloorPickLists ==
    {l \in UNION {[1..n -> FloorIds \cup AbsentIds] : n \in 0..MaxPicks} : Distinct(l)}

\* the floor a pick is found on: the first whose table holds it, 0 for none
floor_of_pick(pick) ==
    LET holding == {f \in DOMAIN floors : pick \in floors[f].ids}
    IN  IF holding = {} THEN 0 ELSE SetMin(holding)

picks_by_floor(picks) ==
    [f \in {floor_of_pick(picks[k]) : k \in DOMAIN picks} \ {0} |->
        SelectSeq(picks, LAMBDA pick : floor_of_pick(pick) = f)]

\* the routes solve_tsp can return for a floor's start and picks, d being the
\* distances of the floor's graph
floor_route_choices(f, d, floor_picks) ==
    solve_tsp(floors[f].traversable, floor_graphs[f], d,
              <<floors[f].staging>> \o floor_picks)

\* the floors in descending order
floor_order_descending(keys) == Reverse(SetToSortedSeq(keys))

\* sorted(floor_routes.keys())
floor_order(keys) == SetToSortedSeq(keys)

RECURSIVE merge_from(_, _, _)
merge_from(floor_routes, order, k) ==
    IF k > Len(order) THEN <<>>
    ELSE (IF order[k] = SetMin(DOMAIN floor_routes)
          THEN floor_routes[order[k]]
          ELSE Tail1(floor_routes[order[k]]))
         \o merge_from(floor_routes, order, k + 1)

\* _merge_sequential(floor_routes)
merge_sequential(floor_routes) ==
    merge_from(floor_routes, floor_order(DOMAIN floor_routes), 1)

RECURSIVE sum(_, _)
sum(values, keys) ==
    IF keys = {} THEN 0
    ELSE values[SetMin(keys)] + sum(values, keys \ {SetMin(keys)})

\* the floor routes of a call: one of solve_tsp's routes for every floor that
\* has picks
FloorRouteChoices(d, by_floor) ==
    {c \in [DOMAIN by_floor ->
              UNION {floor_route_choices(f, d[f], by_floor[f]) : f \in DOMAIN by_floor}] :
        \A f \in DOMAIN by_floor : c[f] \in floor_route_choices(f, d[f], by_floor[f])}

SolvePerFloorTsp ==
    /\ answer.call = "none"
    /\ LET d == floor_lengths
       IN  \E picks \in FloorPickLists :
        LET by_floor == picks_by_floor(picks)
        IN  \E found \in FloorRouteChoices(d, by_floor) :
              LET routed == {f \in DOMAIN by_floor : found[f] # <<>>}
                  no_path(f) == \E k \in 1..(Len(found[f]) - 1) :
                                   ~has_path(d[f], found[f][k], found[f][k + 1])
                  floor_routes == [f \in routed |->
                                     [k \in DOMAIN found[f] |-> node_id(f, found[f][k])]]
                  floor_distances == [f \in routed |->
                                     calculate_route_distance(floor_graphs[f], d[f], found[f])]
                  merged_route == merge_sequential(floor_routes)
                  floor_transitions == analyze_floor_transitions(merged_route)
                  all_picks == UNION {{node_id(f, by_floor[f][k]) : k \in DOMAIN by_floor[f]} :
                                        f \in DOMAIN by_floor}
              IN  answer' =
                    IF \E f \in routed : no_path(f)
                    THEN [call |-> "solve_per_floor_tsp", status |-> "raise", picks |-> picks]
                    ELSE [call |-> "solve_per_floor_tsp", status |-> "ok", picks |-> picks,
                          floor_routes |-> floor_routes,
                          floor_distances |-> floor_distances,
                          route |-> merged_route,
                          total_distance |-> sum(floor_distances, routed)
                              + floor_transitions.num_transitions * inter_floor_penalty,
                          pick_sequence |-> SelectSeq(merged_route, LAMBDA loc : loc \in all_picks),
                          floor_transitions |-> floor_transitions]
    /\ UNCHANGED <<floors, floor_graphs, floor_lengths, unified_graph>>
    /\ UNCHANGED <<rvars, gvars, hvars>>

NextPerFloor == SolvePerFloorTsp

\* ------------------------------------------------ build_unified_graph

\* a floor's graph under the ids of its nodes
floor_graph(f) ==
    [nodes  |-> {node_id(f, n) : n \in floors[f].traversable},
     weight |-> [e \in {{node_id(f, n) : n \in p} : p \in DOMAIN floor_graphs[f]} |->
                    floor_graphs[f][{n \in FloorIds : node_id(f, n) \in e}]]]

\* G.add_nodes_from and G.add_edges_from, floor after floor from floor f on
RECURSIVE add_floors(_, _)
add_floors(g, f) ==
    IF f > Len(floors) THEN g
    ELSE add_floors([nodes  |-> g.nodes \cup floor_graph(f).nodes,
                     weight |-> floor_graph(f).weight @@ g.weight], f + 1)

\* a connection that takes the weight 1
connect_at_unit_weight(g, loc1, loc2) ==
    IF loc1 \in g.nodes /\ loc2 \in g.nodes THEN add_edge(g, loc1, loc2, 1) ELSE g

\* if loc1 in G.nodes() and loc2 in G.nodes(): G.add_edge(loc1, loc2, weight=penalty)
connect(g, loc1, loc2) ==
    IF loc1 \in g.nodes /\ loc2 \in g.nodes
    THEN add_edge(g, loc1, loc2, inter_floor_penalty) ELSE g

\* the access points in the order given: stairs, then elevators
access_points(stair_locations, elevator_locations) ==
    [k \in DOMAIN stair_locations |->
        [type |-> "stair", floor |-> stair_locations[k][1], orig_id |-> stair_locations[k][2]]]
    \o
    [k \in DOMAIN elevator_locations |->
        [type |-> "elevator", floor |-> elevator_locations[k][1],
         orig_id |-> elevator_locations[k][2]]]

\* the keys (type, orig_id) of the access points, each at its first use
RECURSIVE access_keys(_, _)
access_keys(points, seen) ==
    IF points = <<>> THEN <<>>
    ELSE LET key == <<points[1].type, points[1].orig_id>>
         IN  IF key \in seen THEN access_keys(Tail(points), seen)
             ELSE <<key>> \o access_keys(Tail(points), seen \cup {key})

\* floor_locs.sort() of a key's entries: its floors in ascending order, each
\* as often as it was given
sorted_floors(points, key) ==
    LET mine == {k \in DOMAIN points : <<points[k].type, points[k].orig_id>> = key}
        order == sorted_by(mine, [k \in DOMAIN points |-> points[k].floor])
    IN  [i \in DOMAIN order |-> points[order[i]].floor]

\* the loop over the consecutive entries of one key, from entry i on
RECURSIVE connect_consecutive(_, _, _, _)
connect_consecutive(g, fs, orig_id, i) ==
    IF i >= Len(fs) THEN g
    ELSE connect_consecutive(
             connect(g, prefixed(fs[i], str(orig_id)), prefixed(fs[i + 1], str(orig_id))),
             fs, orig_id, i + 1)

RECURSIVE connect_access(_, _, _)
connect_access(g, points, keys) ==
    IF keys = <<>> THEN g
    ELSE connect_access(
             connect_consecutive(g, sorted_floors(points, keys[1]), keys[1][2], 1),
             points, Tail(keys))

\* the fallback: the first traversable staging location of every two floors
access_of(f) ==
    IF floors[f].staging \in floors[f].traversable
    THEN {node_id(f, floors[f].staging)} ELSE {}

RECURSIVE connect_staging(_, _)
connect_staging(g, floor_pairs) ==
    IF floor_pairs = <<>> THEN g
    ELSE LET floor1 == floor_pairs[1][1]
             floor2 == floor_pairs[1][2]
         IN  connect_staging(
                 IF access_of(floor1) # {} /\ access_of(floor2) # {}
                 THEN connect(g, CHOOSE n \in access_of(floor1) : TRUE,
                                 CHOOSE n \in access_of(floor2) : TRUE)
                 ELSE g,
                 Tail(floor_pairs))

\* the pairs floor1 < floor2 in the order of the two loops
floor_pairs_in_order ==
    LET n == Len(floors)
        pairs == {q \in (1..n) \X (1..n) : q[1] < q[2]}
        order == sorted_by({(q[1] - 1) * n + q[2] : q \in pairs},
                           [k \in 1..(n * n) |-> k])
    IN  [i \in DOMAIN order |-> <<((order[i] - 1) \div n) + 1, ((order[i] - 1) % n) + 1>>]

build_unified_graph(stair_locations, elevator_locations) ==
    LET g == add_floors(no_graph, 1)
        points == access_points(stair_locations, elevator_locations)
    IN  IF stair_locations # <<>> \/ elevator_locations # <<>>
        THEN connect_access(g, points, access_keys(points, {}))
        ELSE connect_staging(g, floor_pairs_in_order)

\* the access lists of a call: stairs at location 1, elevators at location 2
StairLists == UNION {[1..n -> (1..MaxFloors) \X {1}] : n \in 0..3}

ElevatorLists == UNION {[1..n -> (1..MaxFloors) \X {2}] : n \in {0, 2}}

BuildUnifiedGraph ==
    /\ answer.call = "none"
    /\ \E stair_locations \in StairLists, elevator_locations \in ElevatorLists :
          /\ unified_graph' = build_unified_graph(stair_locations, elevator_locations)
          /\ answer' = [call |-> "build_unified_graph",
                        access |-> Len(stair_locations) + Len(elevator_locations)]
    /\ UNCHANGED <<floors, floor_graphs, floor_lengths>>
    /\ UNCHANGED <<rvars, gvars, hvars>>

NextUnified == BuildUnifiedGraph

\* ================================================================
\* PhysicalWarehouse (src/physical/physical_layout.py)
\* ================================================================
\* Lengths are in tenths of a unit, so the tolerance 0.1 is 1; a node is its
\* position in self.nodes, an obstacle the rectangle of its polygon; weights
\* are squared distances.

MaxPhNodes == 4

tolerance == 1

\* the call's max_connection_dist: 3 units
max_connection_dist == 30

PhCells == << <<0, 0>>, <<20, 0>>, <<20, 20>>, <<60, 0>>, <<60, 20>>, <<100, 0>> >>

\* the footprints: a wall after the first column, a wall between the second
\* and the third, a block inside the second column, a block whose corner
\* lies 0.07 from the first diagonal, and a block on the last row
Footprints ==
    { [x1 |-> 8,  x2 |-> 12, y1 |-> -10, y2 |-> 30],
      [x1 |-> 38, x2 |-> 42, y1 |-> -10, y2 |-> 30],
      [x1 |-> 18, x2 |-> 22, y1 |-> 8,   y2 |-> 12],
      [x1 |-> 11, x2 |-> 15, y1 |-> 6,   y2 |-> 10],
      [x1 |-> 78, x2 |-> 82, y1 |-> -2,  y2 |-> 2] }

sq(n) == n * n

\* the squared distance of two points
dist2(p, q) == sq(p[1] - q[1]) + sq(p[2] - q[2])

corners(o) == {<<o.x1, o.y1>>, <<o.x2, o.y1>>, <<o.x2, o.y2>>, <<o.x1, o.y2>>}

\* the segment p-q and the rectangle share a point: their boxes overlap and
\* the corners are not all strictly on one side of the line through p and q
meets(o, p, q) ==
    LET side(c) == (q[1] - p[1]) * (c[2] - p[2]) - (q[2] - p[2]) * (c[1] - p[1])
    IN  /\ Min2(p[1], q[1]) <= o.x2 /\ o.x1 <= Max2(p[1], q[1])
        /\ Min2(p[2], q[2]) <= o.y2 /\ o.y1 <= Max2(p[2], q[2])
        /\ ~(\A c \in corners(o) : side(c) > 0)
        /\ ~(\A c \in corners(o) : side(c) < 0)

\* the point p is within t of the rectangle
point_within(o, p, t) ==
    LET dx == Max2(Max2(o.x1 - p[1], p[1] - o.x2), 0)
        dy == Max2(Max2(o.y1 - p[2], p[2] - o.y2), 0)
    IN  sq(dx) + sq(dy) <= sq(t)

\* the point c is within t of the segment p-q
segment_within(c, p, q, t) ==
    LET along == (c[1] - p[1]) * (q[1] - p[1]) + (c[2] - p[2]) * (q[2] - p[2])
        cross == (c[1] - p[1]) * (q[2] - p[2]) - (c[2] - p[2]) * (q[1] - p[1])
    IN  IF along <= 0 THEN dist2(c, p) <= sq(t)
        ELSE IF along >= dist2(p, q) THEN dist2(c, q) <= sq(t)
        ELSE sq(cross) <= sq(t) * dist2(p, q)

\* obstacle.polygon.buffer(t).intersects(line): the segment comes within t of
\* the rectangle
buffer_intersects(o, p, q, t) ==
    \/ meets(o, p, q)
    \/ point_within(o, p, t) \/ point_within(o, q, t)
    \/ \E c \in corners(o) : segment_within(c, p, q, t)

\* a test against the polygons themselves, without the buffer
is_path_clear_unbuffered(obs, p, q) == \A o \in obs : ~buffer_intersects(o, p, q, 0)

is_path_clear(obs, p, q) == \A o \in obs : ~buffer_intersects(o, p, q, tolerance)

\* get_nearby_nodes(node_id, max_distance): the other nodes within reach
get_nearby_nodes(N, i, max_distance) ==
    {j \in DOMAIN N : j # i /\ dist2(N[i], N[j]) <= sq(max_distance)}

\* the loop that adds the edges of build_graph
visible_edges(N, obs) ==
    {{i, j} : i \in DOMAIN N, j \in DOMAIN N} \cap
    {e \in SUBSET (DOMAIN N) :
        \E i, j \in e : /\ e = {i, j}
                        /\ j \in get_nearby_nodes(N, i, max_connection_dist)
                        /\ is_path_clear(obs, N[i], N[j])}

\* the edges of a graph as directed pairs
ph_links(g) == {q \in g.nodes \X g.nodes : q[1] # q[2] /\ {q[1], q[2]} \in DOMAIN g.weight}

\* list(nx.connected_components(G)): the components in the order of their
\* first node
ph_connected_components(g) ==
    LET comp(n) == Reach({n}, ph_links(g))
        firsts == {n \in g.nodes : \A m \in comp(n) : n <= m}
        rank(n) == Cardinality({m \in firsts : m <= n})
    IN  [k \in 1..Cardinality(firsts) |-> comp(CHOOSE n \in firsts : rank(n) = k)]

\* a merge that leaves the first of the two components in the list
merged_components_keeping_first(comps, i, j) ==
    SelectSeq([k \in DOMAIN comps |-> IF k = j THEN {} ELSE comps[k]], LAMBDA c : c # {})
        \o <<comps[i] \cup comps[j]>>

\* [comp for i, comp in enumerate(components) if i not in comp_pair] + [merged]
merged_components(comps, i, j) ==
    SelectSeq([k \in DOMAIN comps |-> IF k \in {i, j} THEN {} ELSE comps[k]], LAMBDA c : c # {})
        \o <<comps[i] \cup comps[j]>>

\* the connections the scan of _connect_components can end on, as
\* <<i, j, n1, n2>>: clear, of least distance, in the first pair of components
\* that holds one of least distance
best_connections(N, obs, comps) ==
    LET found == {c \in (DOMAIN comps) \X (DOMAIN comps) \X (DOMAIN N) \X (DOMAIN N) :
                     /\ c[1] < c[2]
                     /\ c[3] \in comps[c[1]] /\ c[4] \in comps[c[2]]
                     /\ is_path_clear(obs, N[c[3]], N[c[4]])}
        len(c) == dist2(N[c[3]], N[c[4]])
        least == {c \in found : \A e \in found : len(c) <= len(e)}
        before(c, e) == c[1] < e[1] \/ (c[1] = e[1] /\ c[2] <= e[2])
    IN  {c \in least : \A e \in least : before(c, e)}

\* the tables of at most MaxPhNodes nodes in cell order
PhNodeTables ==
    {[k \in 1..Cardinality(S) |-> PhCells[SetToSortedSeq(S)[k]]] :
        S \in {T \in SUBSET (1..Len(PhCells)) : Cardinality(T) <= MaxPhNodes}}

InitPhysical ==
    /\ IdleSolver
    /\ IdleBuilder
    /\ IdleFloors
    /\ self_nodes \in PhNodeTables
    /\ self_obstacles \in SUBSET Footprints
    /\ ph_G = no_graph
    /\ ph_components = <<>>
    /\ ph_bridges = {}
    /\ ph_pc = "build"

\* build_graph up to the connectivity test
BuildEdges ==
    /\ ph_pc = "build"
    /\ ph_G' = [nodes  |-> DOMAIN self_nodes,
                weight |-> [e \in visible_edges(self_nodes, self_obstacles) |->
                              dist2(self_nodes[SetMin(e)], self_nodes[SetMin(e \ {SetMin(e)})])]]
    /\ ph_pc' = "connected?"
    /\ UNCHANGED <<self_nodes, self_obstacles, ph_components, ph_bridges>>
    /\ UNCHANGED <<rvars, gvars, mvars>>

\* if not nx.is_connected(G): is_connected raises on a graph without nodes
CheckConnected ==
    /\ ph_pc = "connected?"
    /\ LET comps == ph_connected_components(ph_G)
       IN  IF ph_G.nodes = {}
           THEN ph_pc' = "raise" /\ UNCHANGED ph_components
           ELSE IF Len(comps) = 1
           THEN ph_pc' = "done" /\ UNCHANGED ph_components
           ELSE ph_pc' = "repair" /\ ph_components' = comps
    /\ UNCHANGED <<self_nodes, self_obstacles, ph_G, ph_bridges>>
    /\ UNCHANGED <<rvars, gvars, mvars>>

\* one pass of the while loop that finds a connection
ConnectComponents ==
    /\ ph_pc = "repair"
    /\ Len(ph_components) > 1
    /\ \E c \in best_connections(self_nodes, self_obstacles, ph_components) :
          /\ ph_G' = add_edge(ph_G, c[3], c[4], dist2(self_nodes[c[3]], self_nodes[c[4]]))
          /\ ph_bridges' = ph_bridges \cup {{c[3], c[4]}}
          /\ ph_components' = merged_components(ph_components, c[1], c[2])
    /\ UNCHANGED <<self_nodes, self_obstacles, ph_pc>>
    /\ UNCHANGED <<rvars, gvars, mvars>>

\* the pass that finds none: break
ConnectBreak ==
    /\ ph_pc = "repair"
    /\ Len(ph_components) > 1
    /\ best_connections(self_nodes, self_obstacles, ph_components) = {}
    /\ ph_pc' = "done"
    /\ UNCHANGED <<self_nodes, self_obstacles, ph_G, ph_components, ph_bridges>>
    /\ UNCHANGED <<rvars, gvars, mvars>>

\* the while condition fails
ConnectReturn ==
    /\ ph_pc = "repair"
    /\ Len(ph_components) <= 1
    /\ ph_pc' = "done"
    /\ UNCHANGED <<self_nodes, self_obstacles, ph_G, ph_components, ph_bridges>>
    /\ UNCHANGED <<rvars, gvars, mvars>>

NextPhysical ==
    \/ BuildEdges
    \/ CheckConnected
    \/ ConnectComponents
    \/ ConnectBreak
    \/ ConnectReturn

\* ------------------------------------- exhaustive on both sides of its cap

\* a list repeated up to n entries
repeated(l, n) == [k \in 1..n |-> l[((k - 1) % Len(l)) + 1]]

\* the pick lists of up to MaxPicks ids, and lists of distinct nodes repeated
\* to more than ExhaustiveCap valid picks, alone and with an unknown id
CapPickLists ==
    UNION {[1..n -> Nodes \cup AbsentIds] : n \in 1..MaxPicks}
    \cup {repeated(l, ExhaustiveCap + 1) :
            l \in {m \in UNION {[1..n -> Nodes] : n \in 1..MaxPicks} : Distinct(m)}}
    \cup {repeated(l, ExhaustiveCap + 1) \o <<a>> :
            l \in {m \in UNION {[1..n -> Nodes] : n \in 1..MaxPicks} : Distinct(m)},
            a \in AbsentIds}

CapCalls ==
    {c \in Nodes \X Nodes \X CapPickLists : FirstUseOrder(<<c[1], c[2]>> \o c[3])}

InitCap ==
    /\ IdleBuilder
    /\ IdleFloors
    /\ IdlePhysical
    /\ G \in Graphs
    /\ lengths = Distances(G)
    /\ \E c \in CapCalls :
        /\ start_node = c[1]
        /\ end_node = c[2]
        /\ pick_locations = c[3]
    /\ method \in {"exhaustive", "greedy"}
    /\ pc = "call"
    /\ valid_picks = <<>>
    /\ current = start_node
    /\ remaining = {}
    /\ route = <<>>
    /\ pick_order = <<>>
    /\ total_distance = 0
    /\ distance = 0
    /\ improved = FALSE
    /\ iterations = 0
    /\ best_distance = Inf
    /\ best_order = <<>>
    /\ idx = 0
    /\ seed = Pending
    /\ result = Pending

NextCap ==
    \/ solve_tsp_with_endpoints
    \/ GreedyStep
    \/ GreedyReturn
    \/ ExhaustiveSearch
    \/ ExhaustiveBuildPick
    \/ ExhaustiveBuildEnd

\* ------------------------------------------ calculate_route_distance alone

\* graphs in which a direct edge can weigh more than a way round
HeavyGraphs == UNION {[E -> {1, 3}] : E \in SUBSET AllPairs}

\* the routes of up to MaxRoute ids, unknown ids included
RouteLists == UNION {[1..n -> Nodes \cup AbsentIds] : n \in 0..MaxRoute}

InitDistance ==
    /\ IdleBuilder
    /\ IdlePhysical
    /\ floors = <<>>
    /\ floor_graphs = <<>>
    /\ floor_lengths = <<>>
    /\ unified_graph = no_graph
    /\ G \in HeavyGraphs
    /\ lengths = Distances(G)
    /\ \E r \in RouteLists : answer = [call |-> "route", route |-> r]
    /\ start_node = 0
    /\ end_node = 0
    /\ pick_locations = <<>>
    /\ method = "greedy"
    /\ pc = "idle"
    /\ valid_picks = <<>>
    /\ current = 0
    /\ remaining = {}
    /\ route = <<>>
    /\ pick_order = <<>>
    /\ total_distance = 0
    /\ distance = 0
    /\ improved = FALSE
    /\ iterations = 0
    /\ best_distance = Inf
    /\ best_order = <<>>
    /\ idx = 0
    /\ seed = Pending
    /\ result = Pending

CalculateRouteDistance ==
    /\ answer.call = "route"
    /\ answer' = [call |-> "calculate_route_distance", route |-> answer.route,
                  distance |-> calculate_route_distance(G, lengths, answer.route)]
    /\ UNCHANGED <<floors, floor_graphs, floor_lengths, unified_graph>>
    /\ UNCHANGED <<rvars, gvars, hvars>>

NextDistance == CalculateRouteDistance

\* ------------------------------------------- 2-opt on longer pick lists

\* the weighted trees on the nodes: every pick is reached, by one path
TreeGraphs ==
    {g \in Graphs :
        /\ Cardinality(DOMAIN g) = Cardinality(Nodes) - 1
        /\ \A u, v \in Nodes : has_path(Distances(g), u, v)}

\* the calls with two to four distinct picks: with three or more the
\* improvement loop runs
TwoOptCalls ==
    {c \in Nodes \X Nodes \X UNION {[1..n -> Nodes] : n \in 2..(MaxPicks + 1)} :
        /\ Distinct(c[3])
        /\ FirstUseOrder(<<c[1], c[2]>> \o c[3])}

InitTwoOpt ==
    /\ IdleBuilder
    /\ IdleFloors
    /\ IdlePhysical
    /\ G \in TreeGraphs
    /\ lengths = Distances(G)
    /\ \E c \in TwoOptCalls :
        /\ start_node = c[1]
        /\ end_node = c[2]
        /\ pick_locations = c[3]
    /\ method = "2-opt"
    /\ pc = "call"
    /\ valid_picks = <<>>
    /\ current = start_node
    /\ remaining = {}
    /\ route = <<>>
    /\ pick_order = <<>>
    /\ total_distance = 0
    /\ distance = 0
    /\ improved = FALSE
    /\ iterations = 0
    /\ best_distance = Inf
    /\ best_order = <<>>
    /\ idx = 0
    /\ seed = Pending
    /\ result = Pending

NextTwoOpt ==
    \/ solve_tsp_with_endpoints
    \/ GreedyStep
    \/ GreedyReturn
    \/ TwoOptReturnSeed
    \/ TwoOptEnter
    \/ TwoOptPass
    \/ TwoOptLoopExit
    \/ TwoOptRebuildPick
    \/ TwoOptRebuildEnd

\* ------------------------------------------------------ specification

NextRoute ==
    \/ solve_tsp_with_endpoints
    \/ GreedyStep
    \/ GreedyReturn
    \/ TwoOptReturnSeed
    \/ TwoOptEnter
    \/ TwoOptPass
    \/ TwoOptLoopExit
    \/ TwoOptRebuildPick
    \/ TwoOptRebuildEnd
    \/ ExhaustiveSearch
    \/ ExhaustiveBuildPick
    \/ ExhaustiveBuildEnd

SpecRoute == InitRoute /\ [][NextRoute]_vars

SpecDup == InitDup /\ [][NextRoute]_vars

SpecCap == InitCap /\ [][NextCap]_vars

\* the solver runs on: no step of it waits for anything
SpecTwoOpt == InitTwoOpt /\ [][NextTwoOpt]_vars /\ WF_vars(NextTwoOpt)

SpecPipeline == InitPipeline /\ [][NextPipeline]_vars

SpecDistance == InitDistance /\ [][NextDistance]_vars

SpecTransitions == InitTransitions /\ [][NextTransitions]_vars

SpecPerFloor == InitFloors /\ [][NextPerFloor]_vars

SpecUnified == InitFloors /\ [][NextUnified]_vars

SpecPhysical == InitPhysical /\ [][NextPhysical]_vars

\* the builder runs on: no step of it waits for anything
SpecPhysicalLive == SpecPhysical /\ WF_vars(NextPhysical)

SpecGraph == InitGraph /\ [][NextGraph]_vars

SpecCreate == InitCreate /\ [][NextCreate]_vars

SpecStacked == InitStacked /\ [][NextGraph]_vars

SpecWide == InitWide /\ [][NextGraph]_vars

SpecRacks == InitRacks /\ [][NextRacks]_vars

SpecFloorBuild == InitFloorBuild /\ [][NextFloorBuild]_vars

SpecSegment == InitSegment /\ [][NextSegment]_vars

\* ================================================================ claims

\* every node of G has a path to every other
Connected == \A u, v \in Nodes : has_path(lengths, u, v)

\* the sum of the shortest-path distances along the waypoints w
RECURSIVE TourLength(_, _)
TourLength(d, w) ==
    IF Len(w) < 2 THEN 0 ELSE Add(d[w[1]][w[2]], TourLength(d, Tail1(w)))

\* the orders in which a list of distinct picks can be visited
Orders(picks) ==
    {o \in [1..Len(picks) -> SeqToSet(picks)] : Distinct(o)}

\* C1: a distance returned by 2-opt is at most the distance of the greedy
\* solution it was seeded from.
C1_TwoOptNotWorseThanGreedy ==
    (pc = "done" /\ method = "2-opt" /\ result.status = "ok")
        => /\ seed.status = "ok"
           /\ result.total_distance <= seed.total_distance

\* a 2-opt call that returned a strictly shorter distance than its seed
C1_Witness ==
    /\ pc = "done" /\ method = "2-opt" /\ result.status = "ok"
    /\ result.total_distance < seed.total_distance

\* C2: on a connected graph the distance returned by exhaustive search is at
\* most the summed shortest-path distance start -> p1 -> ... -> pk -> end of
\* every permutation of the picks.
C2_ExhaustiveIsMinimal ==
    (pc = "done" /\ method = "exhaustive" /\ Connected /\ valid_picks # <<>>)
        => /\ result.status = "ok"
           /\ \A o \in Orders(valid_picks) :
                 result.total_distance
                    <= TourLength(lengths, <<start_node>> \o o \o <<end_node>>)

\* an exhaustive call on a connected graph with three picks where some order
\* is strictly longer than the returned one
C2_Witness ==
    /\ pc = "done" /\ method = "exhaustive" /\ Connected
    /\ result.status = "ok" /\ Len(valid_picks) = 3
    /\ \E o \in Orders(valid_picks) :
          result.total_distance
             < TourLength(lengths, <<start_node>> \o o \o <<end_node>>)

\* C3: on a connected graph every strategy returns a route that starts at
\* start, ends at end, contains every pick, and whose consecutive nodes are
\* joined by an edge.
C3_RouteVisitsAllPicks ==
    (pc = "done" /\ Connected /\ valid_picks # <<>>)
        => /\ result.status = "ok"
           /\ result.route[1] = start_node
           /\ result.route[Len(result.route)] = end_node
           /\ SeqToSet(pick_locations) \subseteq SeqToSet(result.route)
           /\ \A i \in 1..(Len(result.route) - 1) :
                 has_edge(G, result.route[i], result.route[i + 1])

\* a returned route on a connected graph that passes through a node that is
\* neither start, end nor a pick
C3_Witness ==
    /\ pc = "done" /\ Connected /\ result.status = "ok"
    /\ Len(valid_picks) >= 2
    /\ SeqToSet(result.route)
          \ (SeqToSet(pick_locations) \cup {start_node, end_node}) # {}

\* C4: on a connected graph the distance every strategy returns is the sum of
\* the weights of the edges between consecutive nodes of the returned route.
C4_DistanceIsRouteWeight ==
    (pc = "done" /\ Connected /\ result.status = "ok")
        => result.total_distance = PathWeight(G, result.route)

\* a returned route of at least four edges with a positive distance, whose
\* last pick is the end node (no final leg is added)
C4_Witness ==
    /\ pc = "done" /\ Connected /\ result.status = "ok"
    /\ Len(result.route) >= 5
    /\ result.total_distance > 0
    /\ result.pick_order[Len(result.pick_order)] = end_node

\* C5: when a pick of the graph or the end node cannot be reached, the call
\* returns (None, None, None): it neither raises nor returns a route.
C5_UnreachableWaypointFails ==
    (/\ pc = "done"
     /\ valid_picks # <<>>
     /\ \E w \in SeqToSet(valid_picks) \cup {end_node} :
           ~has_path(lengths, start_node, w))
        => result.status = "none"

\* ------------------------------------------------ claims on the builder

\* the edges of the list that the repair loop appended
RepairEdges ==
    IF step \in {"repair", "create", "built"} THEN (marks.isolated + 1)..Len(edges) ELSE {}

Turn(a, b, c) ==
    LET n == (b[1] - a[1]) * (c[2] - a[2]) - (b[2] - a[2]) * (c[1] - a[1])
    IN  IF n > 0 THEN 1 ELSE IF n < 0 THEN -1 ELSE 0

\* c, on the line through a and b, lies between them
Between(a, b, c) ==
    /\ Min2(a[1], b[1]) <= c[1] /\ c[1] <= Max2(a[1], b[1])
    /\ Min2(a[2], b[2]) <= c[2] /\ c[2] <= Max2(a[2], b[2])

\* the closed segments a-b and c-d share a point
SegmentsMeet(a, b, c, d) ==
    \/ Turn(a, b, c) # Turn(a, b, d) /\ Turn(c, d, a) # Turn(c, d, b)
    \/ Turn(a, b, c) = 0 /\ Between(a, b, c)
    \/ Turn(a, b, d) = 0 /\ Between(a, b, d)
    \/ Turn(c, d, a) = 0 /\ Between(c, d, a)
    \/ Turn(c, d, b) = 0 /\ Between(c, d, b)

\* the segment between rows i and j shares a point with the footprint of
\* obstacle o grown by min_clearance on every side
CrossesFootprint(L, i, j, o) ==
    LET r == Rect(L[o], L[o].width + 2 * min_clearance, L[o].depth + 2 * min_clearance)
    IN  \/ inside(Pt(L, i), r) \/ inside(Pt(L, j), r)
        \/ \E e \in rect_edges(r) : SegmentsMeet(Pt(L, i), Pt(L, j), e[1], e[2])

CrossesObstacle(L, i, j) == \E o \in obstacles(L) : CrossesFootprint(L, i, j, o)

SetMax(S) == CHOOSE x \in S : \A y \in S : y <= x

\* rows a and b are bins of two racks that the pairing made partners
OppositeSides(L, a, b) ==
    LET p == pairing(L).rack_pairs
    IN  /\ a \in bins(L) /\ b \in bins(L)
        /\ L[a].rack_id \in DOMAIN p
        /\ p[L[a].rack_id] = L[b].rack_id

\* both rows lie within the aisle-end tolerance of the least, or both of the
\* greatest, y of the bins of their rack pair
AtAisleEnd(L, a, b) ==
    LET ys == {L[i].y : i \in {n \in bins(L) : L[n].rack_id \in {L[a].rack_id, L[b].rack_id}}}
        near(y, e) == Abs(y - e) <= aisle_end_tolerance
    IN  \/ near(L[a].y, SetMin(ys)) /\ near(L[b].y, SetMin(ys))
        \/ near(L[a].y, SetMax(ys)) /\ near(L[b].y, SetMax(ys))

\* C8: no edge of the list, whichever step added it, joins two locations on
\* opposite sides of one rack pair, unless both lie at an end of the aisle.
C8_NoEdgeThroughRack ==
    \A k \in DOMAIN edges :
        OppositeSides(locs, edges[k][1], edges[k][2]) => AtAisleEnd(locs, edges[k][1], edges[k][2])

\* C9: whatever edge list is passed to create_graph_from_edges, no node of
\* the graph is a non-traversable location and every edge has both ends
\* among the traversable locations.
C9_OnlyTraversableNodes ==
    step = "built" =>
        /\ built.nodes \cap obstacles(locs) = {}
        /\ \A e \in DOMAIN built.weight : e \subseteq traversable_indices(locs)

\* a list with an edge to an obstacle, an edge to an id of no row and an
\* edge that the graph keeps
C9_Witness ==
    /\ step = "built"
    /\ \E k \in DOMAIN edges : edges[k][2] \in obstacles(locs) /\ edges[k][1] \notin obstacles(locs)
    /\ \E k \in DOMAIN edges : edges[k][1] \notin DOMAIN locs
    /\ DOMAIN built.weight # {}

\* the component, before the repair, of a node
ComponentOf(n) == CHOOSE j \in DOMAIN components : n \in components[j]

\* C10: when the edges before the repair leave k >= 2 components, the repair
\* appends exactly k - 1 edges, each between two different components.
C10_RepairAddsKMinusOneBridges ==
    (step \in {"create", "built"} /\ ensure_connectivity /\ Len(components) >= 2)
        => /\ Cardinality(RepairEdges) = Len(components) - 1
           /\ \A k \in RepairEdges : ComponentOf(edges[k][1]) # ComponentOf(edges[k][2])

\* two clusters of two nodes each, and the one bridge between them
C10_Witness ==
    /\ step = "built" /\ ensure_connectivity
    /\ Len(components) = 2
    /\ \A j \in DOMAIN components : Cardinality(components[j]) >= 2
    /\ Cardinality(RepairEdges) = 1
    /\ \A k \in RepairEdges : edges[k][1] \in components[1] /\ edges[k][2] \in components[2]

\* C11: with one requested pick that is reachable from start, and end equal
\* to start, every strategy returns a route from start through the pick back
\* to start whose total is twice the shortest distance from start to the pick.
C11_SinglePickRoundTrip ==
    (/\ pc = "done"
     /\ Len(pick_locations) = 1 /\ pick_locations[1] \in Nodes
     /\ start_node = end_node
     /\ has_path(lengths, start_node, pick_locations[1]))
        => /\ result.status = "ok"
           /\ result.route[1] = start_node
           /\ result.route[Len(result.route)] = start_node
           /\ \E k \in DOMAIN result.route : result.route[k] = pick_locations[1]
           /\ result.total_distance = 2 * shortest_path_length(lengths, start_node, pick_locations[1])

\* a round trip to a pick two edges away
C11_Witness ==
    /\ pc = "done" /\ result.status = "ok"
    /\ Len(pick_locations) = 1 /\ start_node = end_node
    /\ pick_locations[1] # start_node
    /\ ~has_edge(G, start_node, pick_locations[1])
    /\ Len(result.route) = 5
    /\ result.route[3] = pick_locations[1]

\* C12: every edge of a built routing graph carries a weight strictly
\* greater than zero, for any layout.
C12_EdgeWeightsPositive ==
    step = "built" => \A e \in DOMAIN built.weight : built.weight[e] > 0

\* C13: on a connected graph, for a pick list with repeated ids and ids that
\* are not nodes, every strategy returns, and its pick order holds each
\* requested id that is a node exactly once and no id that is not a node.
C13_PickOrderFiltersInput ==
    (pc = "done" /\ valid_picks # <<>>)
        => /\ result.status = "ok"
           /\ \A p \in SeqToSet(pick_locations) \cap Nodes :
                 Cardinality({k \in DOMAIN result.pick_order : result.pick_order[k] = p}) = 1
           /\ SeqToSet(result.pick_order) \subseteq Nodes

\* C14: no step of any strategy of solve_tsp_with_endpoints changes the input
\* graph: its nodes, edges and weights after a call, returned or raised, are
\* those before the call.
C14_GraphUnchanged == [][G' = G]_vars

\* a call that failed and a graph that has edges
C14_Witness ==
    /\ pc = "done" /\ result.status = "raise"
    /\ DOMAIN G # {}
    /\ Len(valid_picks) = 3

\* C15: the route the pipelines get from solve_tsp for [start] + picks (+ end)
\* begins at start and ends at end; with end defaulted to start it returns to
\* start, also for a single pick.
C15_PipelineRouteEndpoints ==
    (pc = "done" /\ result.status = "ok")
        => /\ result.route[1] = start_node
           /\ result.route[Len(result.route)] = end_node

\* the floor whose prefix a prefixed id carries
FloorOf(node) == CHOOSE f \in TagFloors : \E x \in OrigIds : node = prefixed(f, x)

\* the positions of a route whose next node is on another floor, in order
FloorChanges(r) ==
    SetToSortedSeq({i \in 1..(Len(r) - 1) : FloorOf(r[i]) # FloorOf(r[i + 1])})

\* C17: for a route of floor-prefixed ids, _analyze_floor_transitions counts
\* the positions i where the floor of route[i] differs from the floor of
\* route[i+1] and lists their (from_floor, to_floor) pairs in route order; a
\* route on one floor has no transition.
C17_TransitionsAreFloorChanges ==
    answer.call = "_analyze_floor_transitions" =>
        LET r == answer.route
            ft == answer.floor_transitions
            changes == FloorChanges(r)
        IN  /\ ft.num_transitions = Len(changes)
            /\ ft.transitions =
                   [k \in 1..Len(changes) |->
                       <<FloorOf(r[changes[k]]), FloorOf(r[changes[k] + 1])>>]
            /\ ((\A i, j \in DOMAIN r : FloorOf(r[i]) = FloorOf(r[j]))
                    => ft.num_transitions = 0)

\* a route over three floors, one of them with a two-digit number, and an
\* original id that holds an underscore
C17_Witness ==
    /\ answer.call = "_analyze_floor_transitions"
    /\ answer.route = <<prefixed(1, <<"A", "_", "3">>), prefixed(12, <<"1">>), prefixed(2, <<"A">>)>>
    /\ answer.floor_transitions.transitions = <<<<1, 12>>, <<12, 2>>>>

\* the floor of a node of a floor graph
NodeFloor(node) ==
    CHOOSE f \in 1..MaxFloors : \E n \in FloorIds : node = node_id(f, n)

\* the number of places where a route goes from one floor to another
NumFloorChanges(r) ==
    Cardinality({i \in 1..(Len(r) - 1) : NodeFloor(r[i]) # NodeFloor(r[i + 1])})

\* C16: the total distance solve_per_floor_tsp returns is the sum of the floor
\* routes' distances plus inter_floor_penalty for every floor change of the
\* merged route; the merged route visits the floors in ascending order, so m
\* floors with a route give exactly m-1 penalties.
C16_PerFloorTotalDistance ==
    (answer.call = "solve_per_floor_tsp" /\ answer.status = "ok") =>
        LET r == answer.route
            m == Cardinality(DOMAIN answer.floor_routes)
        IN  /\ answer.total_distance =
                   sum(answer.floor_distances, DOMAIN answer.floor_distances)
                   + inter_floor_penalty * NumFloorChanges(r)
            /\ \A i, j \in DOMAIN r : i < j => NodeFloor(r[i]) <= NodeFloor(r[j])
            /\ m >= 1 => NumFloorChanges(r) = m - 1
            /\ m >= 1 => answer.total_distance =
                   sum(answer.floor_distances, DOMAIN answer.floor_distances)
                   + inter_floor_penalty * (m - 1)

\* three floors with a route each, one of them of a positive distance
C16_Witness ==
    /\ answer.call = "solve_per_floor_tsp"
    /\ answer.status = "ok"
    /\ DOMAIN answer.floor_routes = {1, 2, 3}
    /\ \E f \in {1, 2, 3} : answer.floor_distances[f] > 0
    /\ answer.total_distance > 2 * inter_floor_penalty

\* the floor graphs' nodes, floor by floor
FloorNodeSets == [f \in DOMAIN floors |-> {node_id(f, n) : n \in floors[f].traversable}]

\* C18: the unified graph's nodes are the disjoint union of the floor graphs'
\* nodes (as many as the floors have together), every edge of a floor graph is
\* in it with its weight, and every edge between two floors weighs
\* inter_floor_penalty.
C18_UnifiedGraphShape ==
    answer.call = "build_unified_graph" =>
        /\ unified_graph.nodes = UNION {FloorNodeSets[f] : f \in DOMAIN floors}
        /\ \A f1, f2 \in DOMAIN floors :
              f1 # f2 => FloorNodeSets[f1] \cap FloorNodeSets[f2] = {}
        /\ Cardinality(unified_graph.nodes) =
              sum([f \in DOMAIN floors |-> Cardinality(floors[f].traversable)], DOMAIN floors)
        /\ \A f \in DOMAIN floors : \A p \in DOMAIN floor_graphs[f] :
              LET e == {node_id(f, n) : n \in p}
              IN  e \in DOMAIN unified_graph.weight
                  /\ unified_graph.weight[e] = floor_graphs[f][p]
        /\ \A e \in DOMAIN unified_graph.weight :
              (\E a, b \in e : NodeFloor(a) # NodeFloor(b))
                  => unified_graph.weight[e] = inter_floor_penalty

\* three floors joined by stairs, and a floor edge of weight 2 kept
C18_Witness ==
    /\ answer.call = "build_unified_graph"
    /\ answer.access = 3
    /\ Len(floors) = 3
    /\ {node_id(1, 1), node_id(2, 1)} \in DOMAIN unified_graph.weight
    /\ {node_id(2, 1), node_id(3, 1)} \in DOMAIN unified_graph.weight
    /\ {node_id(1, 1), node_id(3, 1)} \notin DOMAIN unified_graph.weight
    /\ \E e \in DOMAIN unified_graph.weight : unified_graph.weight[e] = 2

\* the racks of a table whose rack columns are filled in
RackIds == {locs[i].rack_id : i \in DOMAIN locs} \ {-1}

RackBins(r) == {i \in DOMAIN locs : locs[i].rack_id = r}

\* the sum of the x of the rows of S
RECURSIVE XTotal(_)
XTotal(S) == IF S = {} THEN 0 ELSE locs[SetMin(S)].x + XTotal(S \ {SetMin(S)})

\* count(a) * count(b) * (mean x of rack b - mean x of rack a)
ScaledGap(a, b) ==
    XTotal(RackBins(b)) * Cardinality(RackBins(a)) - XTotal(RackBins(a)) * Cardinality(RackBins(b))

\* the mean x of two racks differ by between 10 and 20 units
AisleApart(a, b) ==
    LET scale == Cardinality(RackBins(a)) * Cardinality(RackBins(b))
        gap == IF ScaledGap(a, b) < 0 THEN -ScaledGap(a, b) ELSE ScaledGap(a, b)
    IN  10 * scale <= gap /\ gap <= 20 * scale

ComponentBefore(k, n) ==
    LET comps == connected_components(locs, SubSeq(edges, 1, k - 1))
    IN  CHOOSE j \in DOMAIN comps : n \in comps[j]

\* C20: every bridge of the connectivity repair joins, when it is appended,
\* two nodes of least distance among all pairs of nodes that lie in two
\* different components of the graph built so far.
C20_BridgeIsGlobalClosestPair ==
    \A k \in RepairEdges :
        /\ ComponentBefore(k, edges[k][1]) # ComponentBefore(k, edges[k][2])
        /\ \A a, b \in traversable_indices(locs) :
              ComponentBefore(k, a) # ComponentBefore(k, b)
                  => edges[k][3] <= calculate_distance(locs, a, b)

\* ----------------------------------------------------------------
\* PhysicalWarehouse: the visibility graph and its repair
\* ----------------------------------------------------------------

\* the nodes joined to n by the edges of g
RECURSIVE PhGrow(_, _)
PhGrow(g, S) ==
    LET T == S \cup {v \in g.nodes : \E u \in S : {u, v} \in DOMAIN g.weight}
    IN  IF T = S THEN S ELSE PhGrow(g, T)

PhComponent(g, n) == PhGrow(g, {n})

\* the closed segment a-b shares a point with the closed rectangle o
MeetsRect(a, b, o) ==
    \/ o.x1 <= a[1] /\ a[1] <= o.x2 /\ o.y1 <= a[2] /\ a[2] <= o.y2
    \/ SegmentsMeet(a, b, <<o.x1, o.y1>>, <<o.x2, o.y1>>)
    \/ SegmentsMeet(a, b, <<o.x2, o.y1>>, <<o.x2, o.y2>>)
    \/ SegmentsMeet(a, b, <<o.x2, o.y2>>, <<o.x1, o.y2>>)
    \/ SegmentsMeet(a, b, <<o.x1, o.y2>>, <<o.x1, o.y1>>)

\* the segment a-b passes within t of the point c
PassesNear(a, b, c, t) ==
    LET ab == dist2(a, b)
        dotA == (c[1] - a[1]) * (b[1] - a[1]) + (c[2] - a[2]) * (b[2] - a[2])
        dotB == (c[1] - b[1]) * (a[1] - b[1]) + (c[2] - b[2]) * (a[2] - b[2])
        area == (b[1] - a[1]) * (c[2] - a[2]) - (b[2] - a[2]) * (c[1] - a[1])
    IN  \/ dist2(c, a) <= t * t
        \/ dist2(c, b) <= t * t
        \/ dotA > 0 /\ dotB > 0 /\ area * area <= t * t * ab

\* the segment a-b comes within t of the rectangle o: it meets the rectangle
\* widened by t, the rectangle heightened by t, or a disc of radius t about a
\* corner
Blocks(o, a, b, t) ==
    \/ MeetsRect(a, b, [o EXCEPT !.x1 = @ - t, !.x2 = @ + t])
    \/ MeetsRect(a, b, [o EXCEPT !.y1 = @ - t, !.y2 = @ + t])
    \/ \E c \in {<<o.x1, o.y1>>, <<o.x2, o.y1>>, <<o.x2, o.y2>>, <<o.x1, o.y2>>} :
          PassesNear(a, b, c, t)

\* the segment between nodes i and j stays further than the tolerance from
\* every obstacle
PathClear(i, j) ==
    \A o \in self_obstacles : ~Blocks(o, self_nodes[i], self_nodes[j], tolerance)

\* one pass of the repair that merges: one new edge between two components,
\* which become one
RepairMerges ==
    /\ ph_pc' = "repair"
    /\ Len(ph_components') = Len(ph_components) - 1
    /\ \E u, v \in ph_G.nodes :
          /\ PhComponent(ph_G, u) # PhComponent(ph_G, v)
          /\ DOMAIN ph_G'.weight = DOMAIN ph_G.weight \cup {{u, v}}
          /\ SeqToSet(ph_components') =
                (SeqToSet(ph_components) \ {PhComponent(ph_G, u), PhComponent(ph_G, v)})
                    \cup {PhComponent(ph_G, u) \cup PhComponent(ph_G, v)}

RepairStops == ph_pc' = "done" /\ ph_G' = ph_G

\* C21: the repair loop of the visibility builder terminates; each pass either
\* merges two components with one new edge or stops; and when the builder is
\* done the graph is one component or no two nodes of different components
\* have a clear segment between them.
C21_RepairTerminates ==
    /\ [][ph_pc = "repair" => RepairMerges \/ RepairStops]_vars
    /\ [](ph_pc = "done" =>
            \/ \A u, v \in ph_G.nodes : v \in PhComponent(ph_G, u)
            \/ \A u, v \in ph_G.nodes : v \notin PhComponent(ph_G, u) => ~PathClear(u, v))
    /\ <>(ph_pc \in {"done", "raise"})

\* a repair that merged components and then stopped on a graph still in parts
C21_Witness ==
    /\ ph_pc = "done"
    /\ ph_bridges # {}
    /\ \E u, v \in ph_G.nodes : v \notin PhComponent(ph_G, u)

\* C22: the finished graph joins every two distinct nodes within
\* max_connection_dist whose segment is clear of the buffered footprints,
\* has no edge whose segment is blocked, and has an edge longer than
\* max_connection_dist only where the repair added it.
C22_VisibilityEdges ==
    ph_pc = "done" =>
        /\ \A i, j \in ph_G.nodes :
              (i # j /\ dist2(self_nodes[i], self_nodes[j]) <= max_connection_dist * max_connection_dist
                     /\ PathClear(i, j))
                  => {i, j} \in DOMAIN ph_G.weight
        /\ \A e \in DOMAIN ph_G.weight : \A i, j \in e : i # j => PathClear(i, j)
        /\ \A e \in DOMAIN ph_G.weight :
              (\E i, j \in e : dist2(self_nodes[i], self_nodes[j]) >
                                  max_connection_dist * max_connection_dist)
                  => e \in ph_bridges

\* a finished graph with an edge in reach, a pair in reach that only the
\* buffer blocks, and a longer edge from the repair
C22_Witness ==
    /\ ph_pc = "done"
    /\ \E e \in DOMAIN ph_G.weight : e \notin ph_bridges
    /\ \E i, j \in ph_G.nodes :
          /\ i # j /\ dist2(self_nodes[i], self_nodes[j]) <= max_connection_dist * max_connection_dist
          /\ {i, j} \notin DOMAIN ph_G.weight
          /\ \A o \in self_obstacles : ~Blocks(o, self_nodes[i], self_nodes[j], 0)
    /\ \E e \in ph_bridges : \E i, j \in e :
          dist2(self_nodes[i], self_nodes[j]) > max_connection_dist * max_connection_dist

\* ----------------------------------------------------------------
\* 2-opt: what the scan covers, and its termination
\* ----------------------------------------------------------------

\* the order with its picks a..b (from 1) reversed
ReversedSegment(order, a, b) ==
    SubSeq(order, 1, a - 1) \o Reverse(SubSeq(order, a, b)) \o SubSeq(order, b + 1, Len(order))

\* the total distance start -> picks -> end of an order
OrderLength(order) == TourLength(lengths, <<start_node>> \o order \o <<end_node>>)

\* C23: when the 2-opt loop ends before the cap of 100 passes, no contiguous
\* sub-segment of the returned pick order, of length at least 2 and at any
\* position (the first pick included), has a reversal of strictly smaller
\* total distance start -> picks -> end.
C23_NoImprovingReversalLeft ==
    (method = "2-opt" /\ pc = "done" /\ result.status = "ok"
        /\ Len(result.pick_order) >= 3 /\ iterations < max_iterations)
        => \A a, b \in 1..Len(result.pick_order) :
              a < b => ~Lt(OrderLength(ReversedSegment(result.pick_order, a, b)),
                           OrderLength(result.pick_order))

\* a pass of the improvement loop that accepts a reversal: the order changes
\* by the reversal of one sub-segment and the distance strictly decreases
PassAccepts ==
    /\ improved'
    /\ \E a, b \in 1..Len(pick_order) :
          a < b /\ pick_order' = ReversedSegment(pick_order, a, b)
    /\ Lt(distance', distance)
    /\ has_path(lengths, start_node, end_node)
          => Lt(OrderLength(pick_order'), OrderLength(pick_order))

\* a pass that accepts none
PassAcceptsNone == ~improved' /\ pick_order' = pick_order /\ distance' = distance

\* C24: the 2-opt improvement loop terminates: at most max_iterations passes,
\* each pass accepts at most one reversal, an accepted reversal strictly
\* decreases the current total distance, and the loop is left after the first
\* pass that accepts none.
C24_TwoOptTerminates ==
    /\ [][(pc = "2opt-loop" /\ pc' = "2opt-loop")
            => /\ improved /\ iterations' = iterations + 1
               /\ PassAccepts \/ PassAcceptsNone]_vars
    /\ [][(pc = "2opt-loop" /\ ~improved)
            => pc' = "2opt-rebuild" /\ pick_order' = pick_order]_vars
    /\ [](iterations <= max_iterations)
    /\ <>(pc = "done")

\* a call whose loop accepted two reversals before the pass that found none
C24_Witness == pc = "done" /\ result.status = "ok" /\ iterations = 3

\* ----------------------------------------------------------------
\* the per-floor strategy: what the merge keeps
\* ----------------------------------------------------------------

\* the requested picks that are nodes of the graph of the floor they are
\* found on, by their prefixed ids
RoutablePicks ==
    {node_id(floor_of_pick(answer.picks[k]), answer.picks[k]) :
        k \in {i \in DOMAIN answer.picks :
                 /\ floor_of_pick(answer.picks[i]) # 0
                 /\ answer.picks[i] \in floors[floor_of_pick(answer.picks[i])].traversable}}

\* C25: in the per-floor strategy with the sequential merge every requested
\* pick that is found on a floor and is a node of that floor's graph is in
\* the merged route and in the returned pick sequence, whatever order the
\* per-floor solver returns.
C25_MergeKeepsEveryPick ==
    (answer.call = "solve_per_floor_tsp" /\ answer.status = "ok") =>
        /\ RoutablePicks \subseteq SeqToSet(answer.route)
        /\ RoutablePicks \subseteq SeqToSet(answer.pick_sequence)

\* ----------------------------------------------------------------
\* build_enhanced_graph: the cross-aisle step
\* ----------------------------------------------------------------

\* the edges the cross-aisle step appended, by their place in the list
CrossEdges == (marks.horizontal + 1)..marks.cross

\* the edges the two intra-aisle steps appended
AisleEdges == 1..marks.horizontal

\* the edges the isolated-node step appended
StitchEdges == (marks.cross + 1)..marks.isolated

InVertical(i) == locs[i].traversable /\ locs[i].v_aisle >= 0

InHorizontal(i) == locs[i].traversable /\ locs[i].h_aisle >= 0

\* a and b are nodes of one aisle with no node of the aisle strictly between
\* them along it
AisleNeighbours(a, b) ==
    \/ /\ InVertical(a) /\ InVertical(b) /\ locs[a].v_aisle = locs[b].v_aisle
       /\ ~\E c \in DOMAIN locs :
              /\ InVertical(c) /\ locs[c].v_aisle = locs[a].v_aisle
              /\ Min2(locs[a].y, locs[b].y) < locs[c].y
              /\ locs[c].y < Max2(locs[a].y, locs[b].y)
    \/ /\ InHorizontal(a) /\ InHorizontal(b) /\ locs[a].h_aisle = locs[b].h_aisle
       /\ ~\E c \in DOMAIN locs :
              /\ InHorizontal(c) /\ locs[c].h_aisle = locs[a].h_aisle
              /\ Min2(locs[a].x, locs[b].x) < locs[c].x
              /\ locs[c].x < Max2(locs[a].x, locs[b].x)

\* C26: every edge of the cross-aisle step joins two intersection nodes that
\* share neither their vertical nor their horizontal aisle, at most
\* max_cross_aisle_dist apart; so every edge at a node of exactly one aisle
\* joins it to a consecutive neighbour in that aisle, or comes from the
\* isolated-node step or from the repair.
C26_CrossAisleEdges ==
    /\ \A k \in CrossEdges :
          LET i == edges[k][1]
              j == edges[k][2]
          IN  /\ InVertical(i) /\ InHorizontal(i) /\ InVertical(j) /\ InHorizontal(j)
              /\ locs[i].v_aisle # locs[j].v_aisle
              /\ locs[i].h_aisle # locs[j].h_aisle
              /\ (locs[i].x - locs[j].x) * (locs[i].x - locs[j].x)
                   + (locs[i].y - locs[j].y) * (locs[i].y - locs[j].y)
                     <= max_cross_aisle_dist * max_cross_aisle_dist
    /\ \A k \in DOMAIN edges : \A n \in {edges[k][1], edges[k][2]} :
          (step \in {"create", "built"}
                /\ locs[n].traversable /\ (locs[n].v_aisle >= 0) # (locs[n].h_aisle >= 0))
              => \/ k \in AisleEdges /\ AisleNeighbours(edges[k][1], edges[k][2])
                 \/ k \in StitchEdges
                 \/ k \in RepairEdges

\* a finished graph with a cross-aisle edge, and an aisle edge at a node of
\* a vertical aisle only
C26_Witness ==
    /\ step = "built"
    /\ CrossEdges # {}
    /\ \E k \in AisleEdges :
          locs[edges[k][1]].v_aisle >= 0 /\ locs[edges[k][1]].h_aisle = -1

\* ----------------------------------------------------------------
\* exhaustive beyond its cap
\* ----------------------------------------------------------------

\* the pick orders nearest-neighbour selection can produce from cur with the
\* picks rem still to visit
RECURSIVE NearestOrders(_, _)
NearestOrders(cur, rem) ==
    LET near == {p \in rem : /\ lengths[cur][p] # Inf
                             /\ \A q \in rem : lengths[cur][q] # Inf
                                   => lengths[cur][p] <= lengths[cur][q]}
    IN  IF near = {} THEN {<<>>}
        ELSE UNION {{<<p>> \o o : o \in NearestOrders(p, rem \ {p})} : p \in near}

\* the distance greedy reports for an order: its legs, and the leg to the end
\* when there is a path
NearestLength(o) ==
    LET last == IF o = <<>> THEN start_node ELSE o[Len(o)]
    IN  IF lengths[last][end_node] # Inf
        THEN TourLength(lengths, <<start_node>> \o o \o <<end_node>>)
        ELSE TourLength(lengths, <<start_node>> \o o)

\* a result of the greedy strategy for the call's inputs
IsGreedyResult(r) ==
    /\ r.status = "ok"
    /\ r.pick_order \in NearestOrders(start_node, SeqToSet(valid_picks))
    /\ r.total_distance = NearestLength(r.pick_order)
    /\ r.route[1] = start_node
    /\ \A k \in 1..(Len(r.route) - 1) : {r.route[k], r.route[k + 1]} \in DOMAIN G
    /\ SeqToSet(r.pick_order) \subseteq SeqToSet(r.route)
    /\ lengths[r.route[Len(r.route)]][end_node] # Inf => r.route[Len(r.route)] = end_node

\* C27: method 'exhaustive' with more than ExhaustiveCap valid picks enumerates
\* nothing and reports no failure: it returns a result of the greedy strategy
\* for the same inputs; with ExhaustiveCap or fewer valid picks it runs the
\* exhaustive search and returns its result, of the least distance.
C27_ExhaustiveFallsBackToGreedy ==
    /\ (method = "exhaustive" /\ Len(valid_picks) > ExhaustiveCap)
          => /\ pc \in {"greedy", "done"}
             /\ best_order = <<>> /\ best_distance = Inf
             /\ pc = "done" => IsGreedyResult(result)
    /\ (method = "exhaustive" /\ Len(valid_picks) \in 1..ExhaustiveCap)
          => /\ pc \in {"exhaustive", "exhaustive-build", "done"}
             /\ (pc = "done" /\ result.status = "ok")
                   => /\ result.total_distance = best_distance
                      /\ result.pick_order = best_order
                      /\ \A o \in Orders(SetToSortedSeq(SeqToSet(valid_picks))) :
                            ~Lt(TourLength(lengths, <<start_node>> \o o \o <<end_node>>),
                                result.total_distance)

\* an exhaustive call with eleven valid picks that returned a greedy result
\* longer than the best order's
C27_Witness ==
    /\ method = "exhaustive" /\ pc = "done"
    /\ Len(valid_picks) = ExhaustiveCap + 1
    /\ IsGreedyResult(result)
    /\ \E o \in Orders(SetToSortedSeq(SeqToSet(valid_picks))) :
          Lt(TourLength(lengths, <<start_node>> \o o \o <<end_node>>), result.total_distance)

\* ----------------------------------------------------------------
\* calculate_route_distance
\* ----------------------------------------------------------------

\* the route's step k joins two nodes of the graph that have a path
StepHasPath(r, k) ==
    /\ r[k] \in Nodes /\ r[k + 1] \in Nodes
    /\ lengths[r[k]][r[k + 1]] # Inf

\* the sum over the steps from k on of f
RECURSIVE SumSteps(_, _, _)
SumSteps(f(_), r, k) == IF k >= Len(r) THEN 0 ELSE f(k) + SumSteps(f, r, k + 1)

\* C28: calculate_route_distance returns 0.0 for a route of fewer than two
\* nodes, None (written Inf) when a consecutive pair has no path or a node is
\* missing, and otherwise the sum over consecutive pairs of the direct edge's
\* weight when the two are adjacent and of the weighted shortest-path length
\* when they are not; so the result is never less than the sum of the
\* shortest-path distances.
C28_RouteDistance ==
    answer.call = "calculate_route_distance" =>
        LET r == answer.route
            direct(k) == IF {r[k], r[k + 1]} \in DOMAIN G /\ r[k] # r[k + 1]
                         THEN G[{r[k], r[k + 1]}] ELSE lengths[r[k]][r[k + 1]]
            shortest(k) == lengths[r[k]][r[k + 1]]
        IN  IF Len(r) < 2 THEN answer.distance = 0
            ELSE IF \E k \in 1..(Len(r) - 1) : ~StepHasPath(r, k)
            THEN answer.distance = Inf
            ELSE /\ answer.distance = SumSteps(direct, r, 1)
                 /\ answer.distance >= SumSteps(shortest, r, 1)

\* a route over a direct edge that is not a shortest path: the result exceeds
\* the sum of the shortest-path distances
C28_Witness ==
    /\ answer.call = "calculate_route_distance"
    /\ Len(answer.route) = 3
    /\ \A k \in 1..2 : StepHasPath(answer.route, k)
    /\ answer.distance >
          lengths[answer.route[1]][answer.route[2]] + lengths[answer.route[2]][answer.route[3]]

\* ---- C29

\* the edges the aisle, cross-aisle and stitching steps made
StepEdges == 1..marks.isolated

\* C29: a floor built by build_per_floor_graphs(min_clearance=c, verbose=v) is
\* built as build_enhanced_graph(ensure_connectivity=True, min_clearance=c)
\* builds it: the builder runs with connectivity repair on and clearance c,
\* and no edge of its steps passes an obstacle expanded by c
C29_FloorBuiltWithClearance ==
    (answer.call = "build_per_floor_graphs" /\ step = "built")
        => /\ ensure_connectivity
           /\ min_clearance = answer.min_clearance
           /\ \A k \in StepEdges :
                 ~is_path_blocked(locs, edges[k][1], edges[k][2], answer.min_clearance)

\* ---- C30

\* the closed segment p1-p2 shares a point with the closed rectangle r
SharesPoint(p1, p2, r) ==
    \/ inside(p1, r)
    \/ \E e \in rect_edges(r) : SegmentsMeet(p1, p2, e[1], e[2])

\* a corner of r lies on the segment, and no other point of r does
TouchesCornerOnly(p1, p2, r) ==
    /\ \E e \in rect_edges(r) : Turn(p1, p2, e[1]) = 0 /\ Between(p1, p2, e[1])
    /\ \A x \in r.min_x..r.max_x, y \in r.min_y..r.max_y :
          (Turn(p1, p2, <<x, y>>) = 0 /\ Between(p1, p2, <<x, y>>))
              => (x \in {r.min_x, r.max_x} /\ y \in {r.min_y, r.max_y})

====
